---- MODULE Spec2Model ----
(***************************************************************************)
(* Model of the two GUI tools of the repository:                           *)
(*   Picture2text/ocr2md.py                    (class OCRApp)              *)
(*   BookMarketingGenerator/book-marketing-generator.py                    *)
(*                                             (class BookMarketingGenerator) *)
(* Each tool is a Tk main loop (the UI thread: button handlers and the     *)
(* callbacks queued with root.after) plus the worker threads that          *)
(* start_processing creates.  One run of the model is one run of one of    *)
(* the two programs: Init chooses which (variable tool).                   *)
(***************************************************************************)
EXTENDS Integers, Sequences, FiniteSets, TLC

VARIABLES
  tool,              \* which program runs: "ocr" (ocr2md.py) or "book"
  genai,             \* the module-level name genai: "None" or "module"
  selected_files,    \* self.selected_files, the list object the attribute names now
  processing,        \* OCRApp.processing
  is_running,        \* BookMarketingGenerator.is_running
  cancel_requested,  \* self.cancel_requested
  start_btn,         \* state of self.start_btn
  cancel_btn,        \* state of self.cancel_btn
  progress,          \* what update_progress last showed: <<current, total>>
  progress_label,    \* text of self.progress_label: "Ready" or "Processing"
  uiq,               \* callbacks queued with root.after(0, ...), oldest first
  wk,                \* the worker threads created so far, in creation order
  out_files,         \* ocr2md: content of the output file of each input file
  reports,           \* book generator: the report file of each input file
  proc_writer,       \* history: thread of the last assignment to processing / is_running
  cancel_writer,     \* history: thread of the last assignment to cancel_requested
  edits,             \* history: selection changes made while a worker was running
  form,              \* the entry fields and what the file system answers for them
  start_error,       \* the error box validate_inputs showed at the last Start click
  call,              \* a function called on its own: its name and arguments
  ret                \* what that call did: its result and its effects

vars == << tool, genai, selected_files, processing, is_running, cancel_requested,
           start_btn, cancel_btn, progress, progress_label, uiq, wk,
           out_files, reports, proc_writer, cancel_writer, edits,
           form, start_error, call, ret >>

\* groups of variables, for the frame conditions
env == << tool, genai, form, call, ret >>
flags == << processing, is_running, cancel_requested, proc_writer, cancel_writer >>
widgets == << start_btn, cancel_btn, progress, progress_label, start_error >>
disk == << out_files, reports >>

(***************************************************************************)
(* Bounds of the model.                                                    *)
(***************************************************************************)
\* number of distinct files the file dialog can return
MaxFiles == 2
\* number of Start clicks that pass validation in one behaviour
MaxRuns == 2
\* number of entries of MARKETING_PROMPTS that the model iterates
NumPrompts == 2
\* number of root.after callbacks that can be pending at once
MaxQueue == 2
\* number of times the user changes the selection while a worker is running
MaxEdits == 1

Files == 1..MaxFiles

(***************************************************************************)
(* Error messages of the remote call and their classification.  A message  *)
(* is a sequence of characters; the state holds the index of the message.  *)
(***************************************************************************)
UpperCase == <<"D", "U", "P", "N", "G">>
LowerCase == <<"d", "u", "p", "n", "g">>

\* str.lower() on one character
LowerChar(c) ==
  IF \E i \in 1..Len(UpperCase) : UpperCase[i] = c
    THEN LowerCase[CHOOSE i \in 1..Len(UpperCase) : UpperCase[i] = c]
    ELSE c

\* str.lower()
Lower(s) == [i \in 1..Len(s) |-> LowerChar(s[i])]

\* Python's  sub in s
Contains(s, sub) ==
  \E i \in 0..(Len(s) - Len(sub)) : \A j \in 1..Len(sub) : s[i + j] = sub[j]

\* the messages str(e) the remote call can fail with
ErrText ==
  <<  <<"4","2","9">>,                                       \* 429
      <<"U","n","a","v","a","i","l","a","b","l","e">>,       \* Unavailable
      <<"D","e","n","i","e","d">>  >>                        \* Denied

ErrIds == 1..Len(ErrText)

\* the messages the model lets the call of ocr2md fail with: Unavailable, Denied
OCR_Errs == {2, 3}

\* the messages the model lets call_model of the book generator fail with: 429, Denied
BMG_Errs == {1, 3}

\* ocr2md.py transcribe_image: the markers of a transient error
OCR_Markers ==
  {  <<"4","2","9">>,
     <<"q","u","o","t","a">>,
     <<"r","a","t","e"," ","l","i","m","i","t">>,
     <<"t","i","m","e","o","u","t">>,
     <<"t","e","m","p","o","r","a","r","i","l","y">>,
     <<"u","n","a","v","a","i","l","a","b","l","e">>  }

\* is_retryable = any(x in err_str for x in [...]) with err_str = str(e).lower()
is_retryable(e) ==
  LET err_str == Lower(ErrText[e])
  IN  \E x \in OCR_Markers : Contains(err_str, x)

\* book-marketing-generator.py process_files: the condition of the if at line 365
BMG_transient(e) ==
  LET err_str == ErrText[e]
      low == Lower(err_str)
  IN  \/ Contains(err_str, <<"4","2","9">>)
      \/ Contains(low, <<"r","e","s","o","u","r","c","e"," ","h","a","s"," ",
                         "b","e","e","n"," ","e","x","h","a","u","s","t","e","d">>)
      \/ Contains(low, <<"q","u","o","t","a">>)
      \/ Contains(low, <<"r","a","t","e"," ","l","i","m","i","t">>)
      \/ Contains(low, <<"t","i","m","e","o","u","t">>)
      \/ Contains(low, <<"t","e","m","p","o","r","a","r">>)

\* the classification a reader of the comments at lines 349 and 362 expects
retryable_transient_only(e) == BMG_transient(e)

\* the value of the local retryable after the if/else at lines 363-369:
\* both branches assign True
retryable(e) == IF BMG_transient(e) THEN TRUE ELSE TRUE

\* one attempt more than the code permits
max_retries_four == 3 + 1

\* ocr2md.py transcribe_image: max_retries = 3
max_retries == 3

\* book-marketing-generator.py process_files: max_retries = 3
BMG_max_retries == 3

\* ocr2md.py: for attempt in range(1, max_retries + 1)
AttemptRange == 1..max_retries

\* book-marketing-generator.py: for attempt in range(1, max_retries + 1)
BMG_AttemptRange == 1..BMG_max_retries

\* the delay is left as it is
NextDelay_same(d) == d

\* delay *= 2
NextDelay(d) == d * 2

\* delay = 1.0
InitialDelay == 1

(***************************************************************************)
(* Strings, paths and the validators of ocr2md.py.  A string is a sequence *)
(* of characters; a character is written as a one-letter string, or as the *)
(* name of a control character (NUL, TAB, LF, US, DEL).  A path is parsed  *)
(* as pathlib.PurePosixPath parses it.                                     *)
(***************************************************************************)
\* the characters of [a-zA-Z0-9] that occur in the modelled strings
Alnum == {"a", "b", "d", "g", "k", "n", "o", "p", "t", "x", "G", "N", "P",
          "1", "2", "3", "4"}

\* sanitize_filename: the class [a-zA-Z0-9._-]
SafeChars == Alnum \cup {".", "_", "-"}

\* is_valid_api_key: the class [a-zA-Z0-9_-]
KeyChars == Alnum \cup {"_", "-"}

\* the characters 0x00-0x1f and 0x7f that occur in the modelled strings
ControlChars == {"NUL", "TAB", "LF", "US", "DEL"}

\* the characters str.strip() removes and \s matches
Whitespace == {" ", "TAB", "LF", "US"}

\* str.lstrip()
RECURSIVE LStrip(_)
LStrip(s) == IF s # << >> /\ Head(s) \in Whitespace THEN LStrip(Tail(s)) ELSE s

\* str.rstrip()
RECURSIVE RStrip(_)
RStrip(s) ==
  IF s # << >> /\ s[Len(s)] \in Whitespace THEN RStrip(SubSeq(s, 1, Len(s) - 1)) ELSE s

\* str.strip()
Strip(s) == RStrip(LStrip(s))

\* s.split("/"): cur is the component being read, acc the components read
RECURSIVE SplitAcc(_, _, _)
SplitAcc(s, cur, acc) ==
  IF s = << >> THEN Append(acc, cur)
  ELSE IF Head(s) = "/" THEN SplitAcc(Tail(s), << >>, Append(acc, cur))
  ELSE SplitAcc(Tail(s), Append(cur, Head(s)), acc)

\* Path(s).parts: the root if s is absolute, then the components that are neither
\* empty nor "."
Parts(s) ==
  LET Kept(c) == c # << >> /\ c # <<".">>
      comps == SelectSeq(SplitAcc(s, << >>, << >>), Kept)
  IN  IF s # << >> /\ Head(s) = "/" THEN << <<"/">> >> \o comps ELSE comps

\* '..' in path.parts
HasDotDot(s) == \E k \in 1..Len(Parts(s)) : Parts(s)[k] = <<".", ".">>

\* Path(s).name
PathName(s) ==
  LET p == Parts(s)
  IN  IF p = << >> \/ p[Len(p)] = <<"/">> THEN << >> ELSE p[Len(p)]

\* name.rfind("."), counted from 1 (0 when there is none)
RFindDot(name) ==
  IF \E k \in 1..Len(name) : name[k] = "."
    THEN CHOOSE k \in 1..Len(name) :
           name[k] = "." /\ \A j \in (k + 1)..Len(name) : name[j] # "."
    ELSE 0

\* Path(s).suffix: from the last dot of the name, unless the dot is its first or
\* its last character
Suffix(s) ==
  LET name == PathName(s)
      i == RFindDot(name)
  IN  IF 1 < i /\ i < Len(name) THEN SubSeq(name, i, Len(name)) ELSE << >>

\* Path(s).stem
Stem(s) ==
  LET name == PathName(s)
      i == RFindDot(name)
  IN  IF 1 < i /\ i < Len(name) THEN SubSeq(name, 1, i - 1) ELSE name

\* output_path / name
Join(dir, name) == IF dir = << >> THEN name ELSE dir \o <<"/">> \o name

\* safe_name[:255]
NameLimit == 255

\* sanitize_filename: re.sub(r'[^a-zA-Z0-9._-]', '_', filename)[:255]
sanitize_filename(filename) ==
  LET safe_name == [k \in 1..Len(filename) |->
                      IF filename[k] \in SafeChars THEN filename[k] ELSE "_"]
  IN  SubSeq(safe_name, 1, IF Len(safe_name) < NameLimit THEN Len(safe_name) ELSE NameLimit)

\* is_valid_api_key: len(key) < 20
MinKeyLen == 20

\* is_valid_api_key
is_valid_api_key(key) ==
  IF key = << >> \/ Len(key) < MinKeyLen
    THEN FALSE
    ELSE \A k \in 1..Len(key) : key[k] \in KeyChars

\* only symbolic links are rejected
validate_file_path_lenient(file_path, is_symlink) == ~is_symlink

\* the output path is accepted wherever it resolves to
validate_file_path_in_lenient(file_path, is_symlink, inside) == ~HasDotDot(file_path)

\* validate_file_path(file_path) without allowed_parent; is_symlink is what
\* path.is_symlink() answers
validate_file_path(file_path, is_symlink) ==
  IF HasDotDot(file_path) THEN FALSE
  ELSE IF is_symlink THEN FALSE
  ELSE TRUE

\* validate_file_path(file_path, allowed_parent); inside is the outcome of
\* real_path.relative_to(real_parent)
validate_file_path_in(file_path, is_symlink, inside) ==
  IF HasDotDot(file_path) THEN FALSE
  ELSE IF is_symlink THEN FALSE
  ELSE IF ~inside THEN FALSE
  ELSE TRUE

\* validate_output_directory; writable is the outcome of mkdir, touch and unlink
validate_output_directory(output_dir, writable) ==
  IF HasDotDot(output_dir) THEN FALSE ELSE writable

(***************************************************************************)
(* Worker threads.  A worker's record holds the locals of process_files    *)
(* (and of the transcribe_image / retry loop it is in) and history fields. *)
(* The for statement iterates the list OBJECT that self.selected_files     *)
(* named when the loop began: aliased says that the attribute still names  *)
(* that object (select_files appends to it in place), lst is the object's  *)
(* content once clear_files has rebound the attribute to a new list.       *)
(***************************************************************************)
NoFile == 0

\* The third component of an entry (prompt_idx + 1, prompt, text) of results:
\* a text the model returned,
ResponseText(text) == [kind |-> "text", text |-> text, attempts |-> 0, err |-> 0]
\* the text "No response generated.",
NoResponse == [kind |-> "none", text |-> "", attempts |-> 0, err |-> 0]
\* or the text f"Error calling model after {attempt} attempt(s): {err_str}"
ErrorText(attempt, e) == [kind |-> "error", text |-> "", attempts |-> attempt, err |-> e]
\* no entry yet
NoText == [kind |-> "unset", text |-> "", attempts |-> 0, err |-> 0]

NewWorker ==
  [ pc |-> "start",        \* position in process_files
    total_files |-> 0,     \* total_files
    lst |-> << >>,         \* the iterated list, when no longer aliased
    aliased |-> FALSE,     \* the iterated list is self.selected_files
    idx |-> 0,             \* number of elements the list iterator has yielded
    file |-> NoFile,       \* file_path of the iteration in progress
    prompt_idx |-> 0,      \* book: number of prompts the prompt loop has yielded
    current_op |-> 0,      \* book: current_op
    results |-> << >>,     \* results (book: the prompt number of each entry)
    last_result |-> NoText,\* book: the text of the last entry of results
    errors |-> << >>,      \* ocr2md: errors
    attempt |-> 0,         \* attempt
    delay |-> 0,           \* delay
    last_error |-> 0,      \* last_error / err_str
    attempts |-> << >>,    \* history: outcome of each model call of this retry loop
    waits |-> << >>,       \* history: each time.sleep(delay) of this retry loop
    cancel_in_loop |-> FALSE, \* history: cancel_requested became True during this retry loop
    processed |-> << >>,   \* history: the files whose iteration this run began
    startSel |-> << >>,    \* history: self.selected_files when Start was clicked
    callsAfterCancel |-> 0,\* history: model calls made while cancel_requested
    cancel_clicked |-> "no",\* history: a Cancel click after this thread's Start:
                           \* "run" while it ran, "late" between its end and its reset_ui
    reset_ran |-> FALSE ]  \* history: the reset_ui this worker queued has run

\* what is left of a thread that has returned from process_files
DoneWorker(w) ==
  [NewWorker EXCEPT !.pc = "done", !.reset_ran = w.reset_ran,
                    !.cancel_clicked = IF w.pc = "done" THEN w.cancel_clicked ELSE "no"]

\* the list object worker w iterates
IterList(w) == IF w.aliased THEN selected_files ELSE w.lst

Running(w) == w.pc # "done"

SomeRunning == \E i \in 1..Len(wk) : Running(wk[i])

\* a queued callback with its arguments; th is the worker that queued it
Callback(cb, a, b, c, th) == [cb |-> cb, a |-> a, b |-> b, c |-> c, th |-> th]

\* the callback queue has room
Room == Len(uiq) < MaxQueue

\* the texts a successful call_model can return
Texts == {"", "A"}

\* the texts the model lets a call of ocr2md return (the code does not look at them)
OCR_Texts == {"A"}

NoOutput == "absent"

\* the outcome of one model call: a response with its text, or an exception
Returned(text) == [ok |-> TRUE, text |-> text, err |-> 0]
Raised(e) == [ok |-> FALSE, text |-> "", err |-> e]

\* a key of n characters k
Key(n) == [i \in 1..n |-> "k"]

\* the entry fields at the first Start click: the API key entry, the environment
\* variable GOOGLE_API_KEY, the output directory, whether the file system lets
\* the directory be created and written, and the files that were replaced by a
\* symbolic link after they were selected
Form(api_key, env_key, output_dir, writable, links) ==
  [api_key |-> api_key, env_key |-> env_key, output_dir |-> output_dir,
   writable |-> writable, links |-> links]

\* fields that pass the validation of both tools
GoodForm == Form(Key(20), << >>, <<"o">>, TRUE, {})

\* fields both tools refuse
BadForms ==
  { Form(<<" ">>, << >>, <<"o">>, TRUE, {}),         \* no key
    Form(Key(20), << >>, <<" ">>, TRUE, {}),         \* no output directory
    Form(Key(20), << >>, <<"o">>, FALSE, {}) }       \* output directory cannot be made

\* fields ocr2md refuses
OCR_BadForms ==
  { Form(<< >>, Key(19), <<"o">>, TRUE, {}),                      \* key too short
    Form(Key(10) \o <<" ">> \o Key(10), << >>, <<"o">>, TRUE, {}), \* key with a space
    Form(Key(20), << >>, <<"o", "/", ".", ".">>, TRUE, {}),      \* directory with '..'
    Form(Key(20), << >>, <<"o">>, TRUE, {1}) }                   \* file 1 is now a link

Forms(t) == {GoodForm} \cup BadForms \cup (IF t = "ocr" THEN OCR_BadForms ELSE {})

\* the path of file f of the file dialog: d/<f>.png, not a symbolic link
FileDigit == <<"1", "2", "3", "4">>
FilePath(f) == <<"d", "/", FileDigit[f], ".", "p", "n", "g">>

\* no function is called on its own
NoCall == [fn |-> "none"]

\* the state of the application object after __init__
Idle ==
  /\ selected_files = << >>
  /\ processing = FALSE
  /\ is_running = FALSE
  /\ cancel_requested = FALSE
  /\ start_btn = "normal"
  /\ cancel_btn = "disabled"
  /\ progress = <<0, 0>>
  /\ progress_label = "Ready"
  /\ start_error = "none"
  /\ uiq = << >>
  /\ wk = << >>
  /\ out_files = [f \in Files |-> NoOutput]
  /\ reports = [f \in Files |-> << >>]
  /\ proc_writer = "init"
  /\ cancel_writer = "init"
  /\ edits = 0

Init ==
  /\ tool \in {"ocr", "book"}
  /\ genai \in {"module", "None"}
  /\ form \in Forms(tool)
  /\ call = NoCall
  /\ ret = NoCall
  /\ Idle

(***************************************************************************)
(* The UI thread: button handlers and queued callbacks.  The handlers of   *)
(* the two classes are the same statement for statement except where the   *)
(* actions below branch on tool.                                           *)
(***************************************************************************)
\* for f in files: if f not in self.selected_files: self.selected_files.append(f)
RECURSIVE AppendNew(_, _)
AppendNew(sel, files) ==
  IF files = << >> THEN sel
  ELSE LET f == Head(files)
       IN  AppendNew(IF \E i \in 1..Len(sel) : sel[i] = f THEN sel ELSE Append(sel, f),
                     Tail(files))

\* what the file dialog can return
Picks == { <<f>> : f \in Files }

\* the user changes the selection during a run at most MaxEdits times
EditAllowed == SomeRunning => edits < MaxEdits
EditCount == IF SomeRunning THEN edits + 1 ELSE edits

\* select_files: the chosen files are appended in place
select_files ==
  /\ EditAllowed
  /\ edits' = EditCount
  /\ \E files \in Picks : selected_files' = AppendNew(selected_files, files)
  /\ UNCHANGED << env, flags, widgets, disk, uiq, wk >>

\* clear_files: the attribute is rebound to a new, empty list; a worker that
\* iterates the old list object keeps it
clear_files ==
  /\ EditAllowed
  /\ edits' = EditCount
  /\ selected_files' = << >>
  /\ wk' = [i \in 1..Len(wk) |->
              IF wk[i].aliased
                THEN [wk[i] EXCEPT !.aliased = FALSE, !.lst = selected_files]
                ELSE wk[i]]
  /\ UNCHANGED << env, flags, widgets, disk, uiq >>

\* start_processing leaves the Start button enabled
start_btn_after_start_enabled == "normal"

\* self.start_btn.configure(state="disabled")
start_btn_after_start == "disabled"

\* get_api_key: the stripped entry, or the environment variable
get_api_key == IF Strip(form.api_key) # << >> THEN Strip(form.api_key) ELSE form.env_key

\* the selection as validate_inputs sees it: the path of each selected file and
\* what path.is_symlink() answers for it
Selection ==
  [k \in 1..Len(selected_files) |->
     [path |-> FilePath(selected_files[k]),
      is_symlink |-> selected_files[k] \in form.links]]

\* OCRApp.validate_inputs for the selection sel: the error box it shows, "none"
\* when it returns True
OCR_validate_inputs(sel) ==
  IF get_api_key = << >> THEN "no_key"
  ELSE IF ~is_valid_api_key(get_api_key) THEN "key_format"
  ELSE IF sel = << >> THEN "no_files"
  ELSE IF \E k \in 1..Len(sel) :
            ~validate_file_path(sel[k].path, sel[k].is_symlink) THEN "bad_path"
  ELSE IF Strip(form.output_dir) = << >> THEN "no_output_dir"
  ELSE IF ~validate_output_directory(Strip(form.output_dir), form.writable)
         THEN "bad_output_dir"
  ELSE "none"

\* BookMarketingGenerator.validate_inputs: the error box it shows, "none" when it
\* returns True
BMG_validate_inputs ==
  IF Strip(form.api_key) = << >> THEN "no_key"
  ELSE IF selected_files = << >> THEN "no_files"
  ELSE IF Strip(form.output_dir) = << >> THEN "no_output_dir"
  ELSE IF ~form.writable THEN "bad_output_dir"
  ELSE "none"

\* the error box of the validate_inputs of the running tool
ValidateError ==
  IF tool = "ocr" THEN OCR_validate_inputs(Selection) ELSE BMG_validate_inputs

\* validation always passes
validate_inputs_always == TRUE

\* if not self.validate_inputs(): return
validate_inputs == ValidateError = "none"

\* start_processing leaves the flag as the earlier run left it
StartCancelFlag_kept == cancel_requested

\* self.cancel_requested = False in start_processing
StartCancelFlag == FALSE

\* start_processing; a disabled ttk.Button does not invoke its command
start_processing ==
  /\ start_btn = "normal"
  /\ Len(wk) < MaxRuns
  /\ IF ~validate_inputs
         THEN /\ start_error' = ValidateError
              /\ UNCHANGED << flags, start_btn, cancel_btn, progress, progress_label, wk >>
         ELSE /\ IF tool = "ocr"
                   THEN processing' = TRUE /\ UNCHANGED is_running
                   ELSE is_running' = TRUE /\ UNCHANGED processing
              /\ proc_writer' = "ui"
              /\ cancel_requested' = StartCancelFlag
              /\ cancel_writer' = "ui"
              /\ start_btn' = start_btn_after_start
              /\ cancel_btn' = "normal"
              /\ progress' = <<0, 0>>
              /\ start_error' = "none"
              /\ UNCHANGED progress_label
              /\ wk' = Append(wk, [NewWorker EXCEPT !.startSel = selected_files])
  /\ UNCHANGED << env, disk, selected_files, uiq, edits >>

\* cancel_processing
cancel_processing ==
  /\ cancel_btn = "normal"
  /\ cancel_requested' = TRUE
  /\ cancel_writer' = "ui"
  /\ wk' = [i \in 1..Len(wk) |->
              IF wk[i].pc \in {"call", "sleep"}
                THEN [wk[i] EXCEPT !.cancel_in_loop = TRUE, !.cancel_clicked = "run"]
              ELSE IF Running(wk[i])
                THEN [wk[i] EXCEPT !.cancel_clicked = "run"]
              ELSE IF ~wk[i].reset_ran /\ wk[i].cancel_clicked = "no"
                THEN [wk[i] EXCEPT !.cancel_clicked = "late"]
              ELSE wk[i]]
  /\ UNCHANGED << env, disk, widgets, selected_files, uiq, edits,
                  processing, is_running, proc_writer >>

\* the Tk main loop runs the oldest queued callback:
\* update_progress, reset_ui, or a message box (shown, then dismissed)
run_callback ==
  /\ uiq # << >>
  /\ LET c == Head(uiq)
     IN  /\ uiq' = Tail(uiq)
         /\ CASE c.cb = "update_progress" ->
                   /\ progress' = <<c.a, c.b>>
                   /\ progress_label' = "Processing"
                   /\ UNCHANGED << start_btn, cancel_btn, start_error, wk >>
              [] c.cb = "reset_ui" ->
                   /\ start_btn' = "normal"
                   /\ cancel_btn' = "disabled"
                   /\ progress_label' = "Ready"
                   /\ wk' = [wk EXCEPT ![c.th].reset_ran = TRUE]
                   /\ UNCHANGED << progress, start_error >>
              [] OTHER ->
                   UNCHANGED << widgets, wk >>
  /\ UNCHANGED << env, flags, disk, selected_files, edits >>

(***************************************************************************)
(* The worker thread of ocr2md.py: OCRApp.process_files, with process_file *)
(* and transcribe_image inlined.  A step is atomic up to its next read or  *)
(* write of state shared with the UI thread, its next model call or sleep. *)
(***************************************************************************)
Set(w, i) == wk' = [wk EXCEPT ![i] = w]

\* the loop does not look at the flag
CancelCheck_never == FALSE

\* if self.cancel_requested: (the check at the head of each loop iteration)
CancelCheck == cancel_requested

\* the retry also stops when a cancel was requested
RetryGuard_cancel(attempt, r) == attempt < max_retries /\ r /\ ~cancel_requested

\* no error is retried
RetryGuard_never(attempt, r) == FALSE

\* if attempt < max_retries and is_retryable:
RetryGuard(attempt, r) == attempt < max_retries /\ r

\* the errors transcribe_image classifies as transient
OCR_retryable == { e \in ErrIds : is_retryable(e) }

\* every error is retried
Classify_all(e) == TRUE

\* is_retryable, as transcribe_image computes it from str(e)
Classify(e) == e \in OCR_retryable

\* lines 644-668: the genai check, then the run's configuration is read;
\* config_ok: self.max_file_size_mb.get() (line 659) returns, the field holding
\* an integer; otherwise it raises and lines 696-698 queue the error box
OCR_start(i) ==
  /\ tool = "ocr"
  /\ wk[i].pc = "start"
  /\ IF genai = "None"
       THEN /\ Room
            /\ uiq' = Append(uiq, Callback("showerror", 0, 0, 0, i))
            /\ Set([wk[i] EXCEPT !.pc = "finally"], i)
       ELSE \E config_ok \in BOOLEAN :
              IF config_ok
                THEN /\ Set([wk[i] EXCEPT !.pc = "for",
                                          !.total_files = Len(selected_files)], i)
                     /\ UNCHANGED uiq
                ELSE /\ Room
                     /\ uiq' = Append(uiq, Callback("fatal_error", 0, 0, 0, i))
                     /\ Set([wk[i] EXCEPT !.pc = "finally"], i)
  /\ UNCHANGED << env, flags, widgets, disk, selected_files, edits >>

\* line 670: enumerate(self.selected_files, 1) binds the iterator to the list object
OCR_for(i) ==
  /\ tool = "ocr"
  /\ wk[i].pc = "for"
  /\ Set([wk[i] EXCEPT !.pc = "next", !.aliased = TRUE, !.idx = 0], i)
  /\ UNCHANGED << env, flags, widgets, disk, selected_files, edits, uiq >>

\* lines 670-680 and process_file / transcribe_image up to the retry loop: the next
\* file, the cancel check, the progress callback, then the checks made before the
\* first model call (file_ok: path, type, size and readability of the file)
OCR_next(i) ==
  /\ tool = "ocr"
  /\ wk[i].pc = "next"
  /\ LET w == wk[i]
         L == IterList(w)
     IN  IF w.idx >= Len(L)
           THEN /\ Set([w EXCEPT !.pc = "after"], i)
                /\ UNCHANGED uiq
           ELSE LET f == L[w.idx + 1]
                    w1 == [w EXCEPT !.idx = w.idx + 1, !.file = f]
                IN  IF CancelCheck
                      THEN /\ Set([w1 EXCEPT !.pc = "after"], i)
                           /\ UNCHANGED uiq
                      ELSE /\ Room
                           /\ uiq' = Append(uiq, Callback("update_progress", w.idx + 1,
                                                          w.total_files, 0, i))
                           /\ \E file_ok \in BOOLEAN :
                                LET w2 == [w1 EXCEPT !.processed = Append(@, f),
                                                     !.attempts = << >>,
                                                     !.waits = << >>,
                                                     !.last_error = 0,
                                                     !.cancel_in_loop = FALSE]
                                IN  IF file_ok
                                      THEN Set([w2 EXCEPT !.pc = "call",
                                                          !.attempt = 1,
                                                          !.delay = InitialDelay], i)
                                      ELSE Set([w2 EXCEPT !.errors = Append(@, <<f, 0>>)], i)
  /\ UNCHANGED << env, flags, widgets, disk, selected_files, edits >>

\* the output file is opened for writing before the model is called
OutputAfterFailure_truncated(old) == ""

\* process_file, lines 313-314: transcribe_image raised, open(output_file, "w")
\* is not reached and the file stays as it was
OutputAfterFailure(old) == old

\* lines 252-280 and 313-316, 681-686: one attempt of the model call
OCR_call(i) ==
  /\ tool = "ocr"
  /\ wk[i].pc = "call"
  /\ LET w == wk[i]
         n == IF cancel_requested THEN 1 ELSE 0
     IN  \/ \E text \in OCR_Texts :
              \* return response.text; process_file writes the output file
              /\ out_files' = [out_files EXCEPT ![w.file] = text]
              /\ Set([w EXCEPT !.attempts = Append(@, Returned(text)),
                               !.callsAfterCancel = @ + n,
                               !.pc = "next",
                               !.results = Append(@, w.file)], i)
         \/ \E e \in OCR_Errs :
              LET w1 == [w EXCEPT !.attempts = Append(@, Raised(e)),
                                  !.callsAfterCancel = @ + n,
                                  !.last_error = e]
              IN  /\ out_files' = [out_files EXCEPT ![w.file] = OutputAfterFailure(@)]
                  /\ IF RetryGuard(w.attempt, Classify(e))
                       THEN Set([w1 EXCEPT !.pc = "sleep"], i)
                       ELSE \* raise: process_files records the error
                            Set([w1 EXCEPT !.pc = "next",
                                           !.errors = Append(@, <<w.file, e>>)], i)
  /\ UNCHANGED << env, flags, widgets, reports, selected_files, edits, uiq >>

\* lines 277-278, then the for statement of line 251 (line 283 when it is exhausted)
OCR_sleep(i) ==
  /\ tool = "ocr"
  /\ wk[i].pc = "sleep"
  /\ LET w == wk[i]
         w1 == [w EXCEPT !.waits = Append(@, w.delay), !.delay = NextDelay(w.delay)]
     IN  IF w.attempt + 1 \in AttemptRange
           THEN Set([w1 EXCEPT !.pc = "call", !.attempt = w.attempt + 1], i)
           ELSE Set([w1 EXCEPT !.pc = "next",
                               !.errors = Append(@, <<w.file, w.last_error>>)], i)
  /\ UNCHANGED << env, flags, widgets, disk, selected_files, edits, uiq >>

\* the dialog reports no failure
FailureCount_zero(errors) == 0

\* show_complete, line 855: msg += f"\n\nFailed ({len(errors)}):\n"
FailureCount(errors) == Len(errors)

\* lines 688-694: the completion dialog is queued unless a cancel was requested
OCR_after(i) ==
  /\ tool = "ocr"
  /\ wk[i].pc = "after"
  /\ LET w == wk[i]
     IN  /\ IF ~cancel_requested
              THEN /\ Room
                   /\ uiq' = Append(uiq, Callback("show_complete", Len(w.results),
                                                  w.total_files, FailureCount(w.errors), i))
              ELSE UNCHANGED uiq
         /\ Set([w EXCEPT !.pc = "finally"], i)
  /\ UNCHANGED << env, flags, widgets, disk, selected_files, edits >>

\* the worker sets the flag instead of clearing it
finally_flag_set == TRUE

\* self.processing = False / self.is_running = False in the finally block
finally_flag == FALSE

\* lines 699-701: the finally block, and the thread ends
OCR_finally(i) ==
  /\ tool = "ocr"
  /\ wk[i].pc = "finally"
  /\ Room
  /\ processing' = finally_flag
  /\ proc_writer' = "worker"
  /\ uiq' = Append(uiq, Callback("reset_ui", 0, 0, 0, i))
  /\ Set(DoneWorker(wk[i]), i)
  /\ UNCHANGED << env, widgets, disk, selected_files, edits,
                  is_running, cancel_requested, cancel_writer >>

(***************************************************************************)
(* The worker thread of book-marketing-generator.py:                       *)
(* BookMarketingGenerator.process_files.                                   *)
(***************************************************************************)
\* the placeholder is recorded whatever the call returned
Recorded_placeholder(success, result_text) == NoResponse

\* lines 383-388: the text appended to results after the retry loop; result_text is
\* the response text, or empty (None) when the loop ended without one
Recorded(success, result_text) ==
  IF success /\ result_text # ""
    THEN ResponseText(result_text)
    ELSE IF result_text # "" THEN ResponseText(result_text) ELSE NoResponse

\* if attempt < max_retries and retryable:
BMG_RetryGuard(attempt, r) == attempt < BMG_max_retries /\ r

\* generate_report: one "## n. Prompt n" section per entry of results, in order
generate_report(results) == [k \in 1..Len(results) |-> results[k]]

\* lines 292-309
BMG_start(i) ==
  /\ tool = "book"
  /\ wk[i].pc = "start"
  /\ IF genai = "None"
       THEN /\ Room
            /\ uiq' = Append(uiq, Callback("showerror", 0, 0, 0, i))
            /\ Set([wk[i] EXCEPT !.pc = "finally"], i)
       ELSE /\ Set([wk[i] EXCEPT !.pc = "for", !.total_files = Len(selected_files),
                                 !.current_op = 0], i)
            /\ UNCHANGED uiq
  /\ UNCHANGED << env, flags, widgets, disk, selected_files, edits >>

\* line 311: enumerate(self.selected_files) binds the iterator to the list object
BMG_for(i) ==
  /\ tool = "book"
  /\ wk[i].pc = "for"
  /\ Set([wk[i] EXCEPT !.pc = "next", !.aliased = TRUE, !.idx = 0], i)
  /\ UNCHANGED << env, flags, widgets, disk, selected_files, edits, uiq >>

\* lines 311-331: the next file, the cancel check, the file is read (read_ok)
BMG_next(i) ==
  /\ tool = "book"
  /\ wk[i].pc = "next"
  /\ LET w == wk[i]
         L == IterList(w)
     IN  IF w.idx >= Len(L)
           THEN Set([w EXCEPT !.pc = "after"], i)
           ELSE LET f == L[w.idx + 1]
                    w1 == [w EXCEPT !.idx = w.idx + 1, !.file = f]
                IN  IF CancelCheck
                      THEN Set([w1 EXCEPT !.pc = "after"], i)
                      ELSE \E read_ok \in BOOLEAN :
                             LET w2 == [w1 EXCEPT !.processed = Append(@, f),
                                                  !.attempts = << >>,
                                                  !.waits = << >>,
                                                  !.last_error = 0,
                                                  !.cancel_in_loop = FALSE]
                             IN  IF read_ok
                                   THEN Set([w2 EXCEPT !.pc = "prompt", !.results = << >>,
                                                       !.prompt_idx = 0], i)
                                   ELSE \* continue
                                        Set(w2, i)
  /\ UNCHANGED << env, flags, widgets, disk, selected_files, edits, uiq >>

\* lines 332-353: the next prompt, the cancel check, the progress callback
BMG_prompt(i) ==
  /\ tool = "book"
  /\ wk[i].pc = "prompt"
  /\ LET w == wk[i]
     IN  IF w.prompt_idx >= NumPrompts
           THEN /\ Set([w EXCEPT !.pc = "report"], i)
                /\ UNCHANGED uiq
           ELSE LET w1 == [w EXCEPT !.prompt_idx = w.prompt_idx + 1]
                IN  IF CancelCheck
                      THEN /\ Set([w1 EXCEPT !.pc = "report"], i)
                           /\ UNCHANGED uiq
                      ELSE /\ Room
                           /\ uiq' = Append(uiq, Callback("update_progress",
                                                          w.current_op + 1,
                                                          w.total_files * NumPrompts, 0, i))
                           /\ Set([w1 EXCEPT !.pc = "call",
                                             !.current_op = w.current_op + 1,
                                             !.attempt = 1,
                                             !.delay = InitialDelay,
                                             !.last_error = 0,
                                             !.last_result = NoText,
                                             !.attempts = << >>,
                                             !.waits = << >>,
                                             !.cancel_in_loop = FALSE], i)
  /\ UNCHANGED << env, flags, widgets, disk, selected_files, edits >>

\* lines 355-388: one attempt of call_model
BMG_call(i) ==
  /\ tool = "book"
  /\ wk[i].pc = "call"
  /\ LET w == wk[i]
         n == IF cancel_requested THEN 1 ELSE 0
     IN  \/ \E text \in Texts :
              \* success = True; break
              Set([w EXCEPT !.attempts = Append(@, Returned(text)),
                            !.callsAfterCancel = @ + n,
                            !.pc = "prompt",
                            !.results = Append(@, w.prompt_idx),
                            !.last_result = Recorded(TRUE, text)], i)
         \/ \E e \in BMG_Errs :
              LET w1 == [w EXCEPT !.attempts = Append(@, Raised(e)),
                                  !.callsAfterCancel = @ + n,
                                  !.last_error = e]
              IN  IF BMG_RetryGuard(w.attempt, retryable(e))
                    THEN Set([w1 EXCEPT !.pc = "sleep"], i)
                    ELSE \* result_text = "Error calling model after ..."; break
                         Set([w1 EXCEPT !.pc = "prompt",
                                        !.results = Append(@, w.prompt_idx),
                                        !.last_result = ErrorText(w.attempt, e)], i)
  /\ UNCHANGED << env, flags, widgets, disk, selected_files, edits, uiq >>

\* lines 374-376: sleep, double the delay, continue (lines 383-388 with
\* result_text None when the for statement is exhausted)
BMG_sleep(i) ==
  /\ tool = "book"
  /\ wk[i].pc = "sleep"
  /\ LET w == wk[i]
         w1 == [w EXCEPT !.waits = Append(@, w.delay), !.delay = NextDelay(w.delay)]
     IN  IF w.attempt + 1 \in BMG_AttemptRange
           THEN Set([w1 EXCEPT !.pc = "call", !.attempt = w.attempt + 1], i)
           ELSE Set([w1 EXCEPT !.pc = "prompt",
                               !.results = Append(@, w.prompt_idx),
                               !.last_result = Recorded(FALSE, "")], i)
  /\ UNCHANGED << env, flags, widgets, disk, selected_files, edits, uiq >>

\* the report is written whatever the flag says
ReportGuard_always == TRUE

\* line 395: if not self.cancel_requested:
ReportGuard == ~cancel_requested

\* lines 395-403: the report is written unless a cancel was requested;
\* write_ok: open(output_file, "w") succeeds; otherwise the exception leaves the
\* loop and lines 410-412 queue the error box
BMG_report(i) ==
  /\ tool = "book"
  /\ wk[i].pc = "report"
  /\ LET w == wk[i]
     IN  IF ReportGuard
           THEN \E write_ok \in BOOLEAN :
                  IF write_ok
                    THEN /\ reports' = [reports EXCEPT ![w.file] = generate_report(w.results)]
                         /\ Set([w EXCEPT !.pc = "next"], i)
                         /\ UNCHANGED uiq
                    ELSE /\ Room
                         /\ uiq' = Append(uiq, Callback("fatal_error", 0, 0, 0, i))
                         /\ Set([w EXCEPT !.pc = "finally"], i)
                         /\ UNCHANGED reports
           ELSE /\ Set([w EXCEPT !.pc = "next"], i)
                /\ UNCHANGED << reports, uiq >>
  /\ UNCHANGED << env, flags, widgets, out_files, selected_files, edits >>

\* lines 405-408
BMG_after(i) ==
  /\ tool = "book"
  /\ wk[i].pc = "after"
  /\ IF ~cancel_requested
       THEN /\ Room
            /\ uiq' = Append(uiq, Callback("showinfo", 0, 0, 0, i))
       ELSE UNCHANGED uiq
  /\ Set([wk[i] EXCEPT !.pc = "finally"], i)
  /\ UNCHANGED << env, flags, widgets, disk, selected_files, edits >>

\* lines 413-415: the finally block, and the thread ends
BMG_finally(i) ==
  /\ tool = "book"
  /\ wk[i].pc = "finally"
  /\ Room
  /\ is_running' = finally_flag
  /\ proc_writer' = "worker"
  /\ uiq' = Append(uiq, Callback("reset_ui", 0, 0, 0, i))
  /\ Set(DoneWorker(wk[i]), i)
  /\ UNCHANGED << env, widgets, disk, selected_files, edits,
                  processing, cancel_requested, cancel_writer >>

OCR_worker == \E i \in 1..Len(wk) :
  \/ OCR_start(i)
  \/ OCR_for(i)
  \/ OCR_next(i)
  \/ OCR_call(i)
  \/ OCR_sleep(i)
  \/ OCR_after(i)
  \/ OCR_finally(i)

BMG_worker == \E i \in 1..Len(wk) :
  \/ BMG_start(i)
  \/ BMG_for(i)
  \/ BMG_next(i)
  \/ BMG_prompt(i)
  \/ BMG_call(i)
  \/ BMG_sleep(i)
  \/ BMG_report(i)
  \/ BMG_after(i)
  \/ BMG_finally(i)

Next ==
  \/ select_files
  \/ clear_files
  \/ start_processing
  \/ cancel_processing
  \/ run_callback
  \/ OCR_worker
  \/ BMG_worker

Spec == Init /\ [][Next]_vars

\* the threads are scheduled and the Tk main loop runs the queued callbacks; a
\* model call and a sleep are worker steps, so every one of them returns
Fairness ==
  /\ WF_vars(OCR_worker)
  /\ WF_vars(BMG_worker)
  /\ WF_vars(run_callback)

\* the runs in which the selection is left alone while a worker is running
InitLive ==
  /\ tool \in {"ocr", "book"}
  /\ genai \in {"module", "None"}
  /\ form \in Forms(tool)
  /\ call = NoCall
  /\ ret = NoCall
  /\ selected_files = << >>
  /\ processing = FALSE
  /\ is_running = FALSE
  /\ cancel_requested = FALSE
  /\ start_btn = "normal"
  /\ cancel_btn = "disabled"
  /\ progress = <<0, 0>>
  /\ progress_label = "Ready"
  /\ start_error = "none"
  /\ uiq = << >>
  /\ wk = << >>
  /\ out_files = [f \in Files |-> NoOutput]
  /\ reports = [f \in Files |-> << >>]
  /\ proc_writer = "init"
  /\ cancel_writer = "init"
  /\ edits = MaxEdits

SpecLive == InitLive /\ [][Next]_vars /\ Fairness

(***************************************************************************)
(* One file taken through select_files, validate_inputs and process_file   *)
(* of ocr2md.py, and through the report writing of the book generator.     *)
(* The file, what the file system says about it and what the remote model  *)
(* answers are the arguments of the call (variable call); ret holds what   *)
(* each function did with them.                                            *)
(***************************************************************************)
\* get_mime_type: the keys of mime_types
mime_types ==
  { <<".", "p", "n", "g">>, <<".", "j", "p", "g">>, <<".", "j", "p", "e", "g">>,
    <<".", "p", "d", "f">>, <<".", "w", "e", "b", "p">>, <<".", "g", "i", "f">> }

\* max_size = max_size_mb * 1024 * 1024
MaxSize(max_size_mb) == max_size_mb * 1024 * 1024

\* every file is accepted
get_mime_type_any(file_path, size, max_size_mb) == "ok"

\* get_mime_type: the ValueError it raises, "ok" when it returns a MIME type
get_mime_type(file_path, size, max_size_mb) ==
  IF Lower(Suffix(file_path)) \notin mime_types THEN "unsupported_type"
  ELSE IF size > MaxSize(max_size_mb) THEN "too_big"
  ELSE IF size = 0 THEN "empty"
  ELSE "ok"

\* transcribe_image, lines 251-283: the retry loop from attempt on, given the
\* outcome responses[k] of the k-th model call
RECURSIVE RetryLoop(_, _)
RetryLoop(responses, attempt) ==
  LET r == responses[attempt]
  IN  IF r.ok THEN [ok |-> TRUE, calls |-> attempt, text |-> r.text, err |-> 0]
      ELSE IF RetryGuard(attempt, Classify(r.err)) /\ attempt + 1 \in AttemptRange
             THEN RetryLoop(responses, attempt + 1)
             ELSE [ok |-> FALSE, calls |-> attempt, text |-> "", err |-> r.err]

\* what a call of process_file did: the exception raised or the file written
Raise(error, calls) ==
  [outcome |-> "raised", error |-> error, calls |-> calls, written |-> << >>, text |-> ""]
Wrote(output_file, text, calls) ==
  [outcome |-> "written", error |-> "none", calls |-> calls, written |-> output_file,
   text |-> text]
NotRun == [outcome |-> "pending", error |-> "none", calls |-> 0, written |-> << >>, text |-> ""]

\* f"{safe_filename}.txt"
TxtName(safe_filename) == safe_filename \o <<".", "t", "x", "t">>

\* process_file (lines 286-316) with transcribe_image (lines 222-283) inlined;
\* c holds the file and the answers of the file system and of the model
process_file(c, output_dir, writable) ==
  IF ~validate_file_path(c.path, c.is_symlink) THEN Raise("invalid_input_path", 0)
  ELSE IF ~validate_output_directory(output_dir, writable)
         THEN Raise("invalid_output_dir", 0)
  ELSE LET safe_filename == sanitize_filename(PathName(c.path))
           output_file == Join(output_dir, TxtName(safe_filename))
       IN  IF ~validate_file_path_in(output_file, c.out_link # "none",
                                     c.out_link # "outside")
             THEN Raise("output_path_validation", 0)
           ELSE IF genai = "None" THEN Raise("no_genai", 0)
           ELSE IF ~c.readable THEN Raise("open_failed", 0)
           ELSE IF get_mime_type(c.path, c.size, c.max_size_mb) # "ok"
                  THEN Raise(get_mime_type(c.path, c.size, c.max_size_mb), 0)
           ELSE LET t == RetryLoop(c.responses, 1)
                IN  IF t.ok THEN Wrote(output_file, t.text, t.calls)
                    ELSE Raise("model_error", t.calls)

\* select_files, lines 534-553: the file passes the checks and is appended
select_accepts(c) ==
  IF ~validate_file_path(c.path, c.is_symlink) THEN FALSE
  ELSE IF c.size > MaxSize(c.max_size_mb) THEN FALSE
  ELSE TRUE

\* f"{file_name}_Marketing_Report.md"
ReportName(file_name) ==
  file_name \o <<"_", "M", "a", "r", "k", "e", "t", "i", "n", "g", "_",
                 "R", "e", "p", "o", "r", "t", ".", "m", "d">>

\* book generator, lines 316 and 397: the path of the report of a file
ReportPath(file_path, output_dir) == Join(output_dir, ReportName(Stem(file_path)))

\* the file names and directories of the files the dialog offers
FileNames ==
  { <<"a", ".", "p", "n", "g">>, <<"a", ".", "P", "N", "G">>, <<"a", ".", "t", "x", "t">>,
    <<"a", " ", "b", ".", "p", "n", "g">>, <<"a", "_", "b", ".", "p", "n", "g">>,
    <<"a">>, <<".", "p", "n", "g">>, <<".", ".">> }
FileDirs == { <<"d">>, <<".", ".">>, <<"/", "d", "/", ".", ".", "/", "b">>, <<"/", "b">> }
FilePaths == { Join(d, n) : d \in FileDirs, n \in FileNames }

\* the output directories the user can choose
OutDirs == { <<"o">>, <<"o", "/", ".", ".", "/", "p">>, <<"/", "o", " ">> }

\* the outcomes of the first, second and third model call for the file
ResponseSeqs ==
  { <<Returned("A"), Returned("A"), Returned("A")>>,
    <<Raised(2), Raised(2), Returned("A")>>,
    <<Raised(3), Returned("A"), Returned("A")>> }

\* the sizes of the file in bytes, around the limit of 1 MB
FileSizes == {0, 1, MaxSize(1), MaxSize(1) + 1}

\* one file with the answers of the file system and of the model
FileCalls ==
  [ fn : {"file"}, path : FilePaths, is_symlink : BOOLEAN, readable : BOOLEAN,
    size : FileSizes, max_size_mb : {1}, out_link : {"none", "inside", "outside"},
    responses : ResponseSeqs ]

\* the fields at Start: a valid key, the chosen output directory
FileForms == { Form(Key(20), << >>, d, w, {}) : d \in OutDirs, w \in BOOLEAN }

InitFile ==
  /\ tool \in {"ocr", "book"}
  /\ genai \in (IF tool = "ocr" THEN {"module", "None"} ELSE {"module"})
  /\ form \in FileForms
  /\ call \in (IF tool = "ocr" THEN FileCalls
               ELSE [fn : {"report"}, path : FilePaths])
  /\ ret = [stage |-> "select", added |-> FALSE, start_error |-> "none",
            result |-> NotRun, recorded |-> "none"]
  /\ Idle

\* OCRApp.select_files for the file of the call
F_select_files ==
  /\ call.fn = "file"
  /\ ret.stage = "select"
  /\ ret' = [ret EXCEPT !.stage = "validate", !.added = select_accepts(call)]
  /\ UNCHANGED << tool, genai, form, call, flags, widgets, disk, selected_files,
                  uiq, wk, edits >>

\* OCRApp.validate_inputs for a selection that holds the file of the call
F_validate_inputs ==
  /\ call.fn = "file"
  /\ ret.stage = "validate"
  /\ ret' = [ret EXCEPT !.stage = "process",
                        !.start_error = OCR_validate_inputs(<<call>>)]
  /\ UNCHANGED << tool, genai, form, call, flags, widgets, disk, selected_files,
                  uiq, wk, edits >>

\* process_file for the file of the call, as process_files calls it (line 681)
F_process_file ==
  /\ call.fn = "file"
  /\ ret.stage = "process"
  /\ LET r == process_file(call, Strip(form.output_dir), form.writable)
     IN  ret' = [ret EXCEPT !.stage = "done",
                            !.result = r,
                            \* lines 681-686: results.append / errors.append
                            !.recorded = IF r.outcome = "written" THEN "results"
                                                                  ELSE "errors"]
  /\ UNCHANGED << tool, genai, form, call, flags, widgets, disk, selected_files,
                  uiq, wk, edits >>

\* book generator, lines 395-401: the report of the file of the call is written
F_write_report ==
  /\ call.fn = "report"
  /\ ret.stage = "select"
  /\ ret' = [ret EXCEPT !.stage = "done",
                        !.result = Wrote(ReportPath(call.path, form.output_dir), "A", 0)]
  /\ UNCHANGED << tool, genai, form, call, flags, widgets, disk, selected_files,
                  uiq, wk, edits >>

NextFile ==
  \/ F_select_files
  \/ F_validate_inputs
  \/ F_process_file
  \/ F_write_report

SpecFile == InitFile /\ [][NextFile]_vars

(***************************************************************************)
(* One run over two selected files: which output paths it writes.          *)
(***************************************************************************)
\* a supported, readable file of one byte whose transcription is text
FineCall(path, text) ==
  [ fn |-> "file", path |-> path, is_symlink |-> FALSE, readable |-> TRUE,
    size |-> 1, max_size_mb |-> 1, out_link |-> "none",
    responses |-> <<Returned(text), Returned(text), Returned(text)>> ]

\* select_files of both tools appends a chosen path that is not yet in the
\* list; ocr2md also applies its checks: the selections of two files
Selections(t) ==
  { <<p, q>> : p \in FilePaths, q \in FilePaths } \cap
  { sel \in Seq(FilePaths) :
      /\ Len(sel) = 2
      /\ sel[1] # sel[2]
      /\ t = "ocr" => \A k \in 1..2 : select_accepts(FineCall(sel[k], "A")) }

\* open(path, "w") and write: the directory after the file path was written
\* for input number k
WriteFile(dir, path, k) ==
  { e \in dir : e.path # path } \cup { [path |-> path, of |-> k] }

InitRun ==
  /\ tool \in {"ocr", "book"}
  /\ genai = "module"
  /\ form = GoodForm
  /\ call \in { [fn |-> "run", files |-> sel] :
                  sel \in { <<p, q>> : p \in FilePaths, q \in FilePaths } }
  /\ call.files \in Selections(tool)
  /\ ret = [index |-> 0, written |-> << >>, failed |-> << >>, dir |-> {}]
  /\ Idle

\* ocr2md process_files, lines 679-686, for the next file of the run
R_process_file ==
  /\ call.fn = "run" /\ tool = "ocr"
  /\ ret.index < Len(call.files)
  /\ LET k == ret.index + 1
         r == process_file(FineCall(call.files[k], "A"), Strip(form.output_dir),
                           form.writable)
     IN  ret' = IF r.outcome = "written"
                  THEN [ret EXCEPT !.index = k,
                                   !.written = Append(@, [path |-> r.written, of |-> k]),
                                   !.dir = WriteFile(@, r.written, k)]
                  ELSE [ret EXCEPT !.index = k, !.failed = Append(@, k)]
  /\ UNCHANGED << tool, genai, form, call, flags, widgets, disk, selected_files,
                  uiq, wk, edits >>

\* book generator process_files, lines 316 and 395-401, for the next file
R_write_report ==
  /\ call.fn = "run" /\ tool = "book"
  /\ ret.index < Len(call.files)
  /\ LET k == ret.index + 1
         report_path == ReportPath(call.files[k], form.output_dir)
     IN  ret' = [ret EXCEPT !.index = k,
                            !.written = Append(@, [path |-> report_path, of |-> k]),
                            !.dir = WriteFile(@, report_path, k)]
  /\ UNCHANGED << tool, genai, form, call, flags, widgets, disk, selected_files,
                  uiq, wk, edits >>

NextRun ==
  \/ R_process_file
  \/ R_write_report

SpecRun == InitRun /\ [][NextRun]_vars

(***************************************************************************)
(* The model calls each tool of the repository makes for the files of one  *)
(* run: ocr2md, the book generator (first prompt of each file) and the two *)
(* scripts Backup/ocr-script-form.py and Backup/ocrfromAI.py.              *)
(***************************************************************************)
Scripts == {"ocr-script-form", "ocrfromAI"}

\* Backup get_mime_type (ocr-script-form.py 21-34, ocrfromAI.py 20-33): only the
\* extension is examined
Backup_get_mime_type(file_path) ==
  IF Lower(Suffix(file_path)) \notin mime_types THEN "unsupported_type" ELSE "ok"

\* Backup transcribe_image (ocr-script-form.py 37-52, ocrfromAI.py 36-51): one
\* generate_content call, its exception propagates
Backup_transcribe_image(responses) ==
  LET r == responses[1]
  IN  [ok |-> r.ok, calls |-> 1, text |-> r.text, err |-> r.err]

\* Backup process_file (ocr-script-form.py 55-72, ocrfromAI.py 54-75)
Backup_process_file(c, output_dir) ==
  IF ~c.readable THEN Raise("not_found", 0)
  ELSE IF Backup_get_mime_type(c.path) # "ok"
         THEN Raise(Backup_get_mime_type(c.path), 0)
  ELSE LET t == Backup_transcribe_image(c.responses)
       IN  IF t.ok THEN Wrote(Join(output_dir, TxtName(PathName(c.path))), t.text, t.calls)
           ELSE Raise("model_error", t.calls)

\* book generator, lines 355-381: the retry loop of one prompt from attempt on
RECURSIVE BMG_RetryLoop(_, _)
BMG_RetryLoop(responses, attempt) ==
  LET r == responses[attempt]
  IN  IF r.ok THEN [ok |-> TRUE, calls |-> attempt, text |-> r.text, err |-> 0]
      ELSE IF BMG_RetryGuard(attempt, retryable(r.err)) /\ attempt + 1 \in BMG_AttemptRange
             THEN BMG_RetryLoop(responses, attempt + 1)
             ELSE [ok |-> FALSE, calls |-> attempt, text |-> "", err |-> r.err]

\* the outcomes of the first, second and third model call for a file
CallOutcomes == { Returned("A") } \cup { Raised(e) : e \in ErrIds }
RunResponses ==
  { <<a, b, Returned("A")>> : a \in CallOutcomes, b \in CallOutcomes } \cup
  { <<Raised(e), Raised(e), Raised(e)>> : e \in ErrIds }

\* the files given to a run
RunFiles ==
  [ fn : {"file"},
    path : { <<"d", "/", "a", ".", "p", "n", "g">>, <<"d", "/", "a", ".", "t", "x", "t">> },
    is_symlink : {FALSE}, readable : BOOLEAN, size : {1}, max_size_mb : {1},
    out_link : {"none"}, responses : RunResponses ]

\* what the run recorded for a file: whether it counts as failed, the number of
\* model calls made for it and the outcome of the first of them
LogEntry(c, failed, calls) ==
  [failed |-> failed, calls |-> calls, first |-> c.responses[1]]

InitCalls ==
  /\ tool \in {"ocr", "book"} \cup Scripts
  /\ genai = "module"
  /\ form = GoodForm
  /\ call \in [fn : {"calls"}, files : { <<c>> : c \in RunFiles } \cup
                                       { <<c, d>> : c \in RunFiles,
                                                    d \in { x \in RunFiles : x.readable } }]
  /\ ret = [index |-> 0, log |-> << >>]
  /\ Idle

\* the file the loop of the run takes next
NextCallFile == call.files[ret.index + 1]

\* the loop body of the run of tool t: entry is what it records for the next file
CallsStep(t, entry) ==
  /\ call.fn = "calls" /\ tool = t
  /\ ret.index < Len(call.files)
  /\ ret' = [index |-> ret.index + 1, log |-> Append(ret.log, entry)]
  /\ UNCHANGED << tool, genai, form, call, flags, widgets, disk, selected_files,
                  uiq, wk, edits >>

\* ocr2md process_files, lines 679-686
K_ocr2md ==
  LET c == NextCallFile
      r == process_file(c, Strip(form.output_dir), form.writable)
  IN  CallsStep("ocr", LogEntry(c, r.outcome # "written", r.calls))

\* book generator process_files, lines 319-388: the file is read and its first
\* prompt is sent; a failure is recorded as the prompt's result text
K_book ==
  LET c == NextCallFile
      t == BMG_RetryLoop(c.responses, 1)
  IN  CallsStep("book", IF ~c.readable THEN LogEntry(c, TRUE, 0)
                        ELSE LogEntry(c, ~t.ok, t.calls))

\* Backup/ocr-script-form.py main, lines 161-171
K_ocr_script_form ==
  LET c == NextCallFile
      r == Backup_process_file(c, form.output_dir)
  IN  CallsStep("ocr-script-form", LogEntry(c, r.outcome # "written", r.calls))

\* Backup/ocrfromAI.py main, lines 99-105
K_ocrfromAI ==
  LET c == NextCallFile
      r == Backup_process_file(c, form.output_dir)
  IN  CallsStep("ocrfromAI", LogEntry(c, r.outcome # "written", r.calls))

NextCalls ==
  \/ K_ocr2md
  \/ K_book
  \/ K_ocr_script_form
  \/ K_ocrfromAI

SpecCalls == InitCalls /\ [][NextCalls]_vars

(***************************************************************************)
(* sanitize_prompt, ocr2md.py lines 131-160.                               *)
(***************************************************************************)
\* the least element of a non-empty set of integers
Least(S) == CHOOSE i \in S : \A j \in S : i <= j

\* the position of the first character of s that is in the class, 0 if none
FirstIn(s, class) ==
  LET idx == { i \in 1..Len(s) : s[i] \in class }
  IN  IF idx = {} THEN 0 ELSE Least(idx)

\* the position of the first character of s that is not in the class, 0 if none
FirstNotIn(s, class) ==
  LET idx == { i \in 1..Len(s) : s[i] \notin class }
  IN  IF idx = {} THEN 0 ELSE Least(idx)

\* re.sub(r"[class]+", " ", s): every maximal run of characters of the class
\* becomes one space
RECURSIVE SubRuns(_, _)
SubRuns(s, class) ==
  LET i == FirstIn(s, class)
  IN  IF i = 0 THEN s
      ELSE LET rest == SubSeq(s, i, Len(s))
               k == FirstNotIn(rest, class)
           IN  SubSeq(s, 1, i - 1) \o <<" ">> \o
               (IF k = 0 THEN << >> ELSE SubRuns(SubSeq(rest, k, Len(rest)), class))

\* s.find(seq) + 1: the position of the first occurrence of seq in s, 0 if none
Find(s, seq) ==
  LET idx == { i \in 1..(Len(s) - Len(seq) + 1) :
                 \A j \in 1..Len(seq) : s[i + j - 1] = seq[j] }
  IN  IF idx = {} THEN 0 ELSE Least(idx)

\* s.replace(seq, " "): the occurrences of seq, found from the left without
\* overlap, become one space each
RECURSIVE Replace(_, _)
Replace(s, seq) ==
  LET i == Find(s, seq)
  IN  IF i = 0 THEN s
      ELSE SubSeq(s, 1, i - 1) \o <<" ">> \o
           Replace(SubSeq(s, i + Len(seq), Len(s)), seq)

\* blacklist = ["{{", "}}", "${", "<script", "</script>", three backquotes];
\* "BQ" is the backquote character
blacklist ==
  << <<"{", "{">>, <<"}", "}">>, <<"$", "{">>,
     <<"<", "s", "c", "r", "i", "p", "t">>,
     <<"<", "/", "s", "c", "r", "i", "p", "t", ">">>,
     <<"BQ", "BQ", "BQ">> >>

\* for seq in blacklist: if seq in p: p = p.replace(seq, " "), from the k-th on
RECURSIVE ReplaceBlacklist(_, _)
ReplaceBlacklist(s, k) ==
  IF k > Len(blacklist) THEN s
  ELSE ReplaceBlacklist(IF Contains(s, blacklist[k]) THEN Replace(s, blacklist[k]) ELSE s,
                        k + 1)

\* {100,} in r"(.)\1{100,}": the repetitions that must follow the first character
RepeatMin == 100

\* the number of leading characters of s equal to c
RunLen(s, c) ==
  LET k == FirstNotIn(s, {c})
  IN  IF k = 0 THEN Len(s) ELSE k - 1

\* re.sub(r"(.)\1{100,}", r"\1", s): a run of more than RepeatMin equal
\* characters (other than a newline) becomes one character
RECURSIVE CollapseRepeats(_)
CollapseRepeats(s) ==
  IF s = << >> THEN << >>
  ELSE LET c == Head(s)
           n == RunLen(s, c)
           rest == SubSeq(s, n + 1, Len(s))
       IN  IF n >= 1 + RepeatMin /\ c # "LF"
             THEN <<c>> \o CollapseRepeats(rest)
             ELSE SubSeq(s, 1, n) \o CollapseRepeats(rest)

\* p[:max_len]
SliceTo(p, max_len) ==
  IF max_len >= 0 THEN SubSeq(p, 1, IF max_len < Len(p) THEN max_len ELSE Len(p))
  ELSE SubSeq(p, 1, Len(p) + max_len)

\* if len(p) > max_len: p = p[:max_len]
Truncate(p, max_len) == IF Len(p) > max_len THEN SliceTo(p, max_len) ELSE p

\* sanitize_prompt(prompt, max_len); is_none: prompt is None
sanitize_prompt(prompt, is_none, max_len) ==
  IF is_none THEN << >>
  ELSE LET p1 == Strip(prompt)
           p2 == SubRuns(p1, ControlChars)
           p3 == SubRuns(p2, Whitespace)
           p4 == ReplaceBlacklist(p3, 1)
           p5 == CollapseRepeats(p4)
           p6 == Truncate(p5, max_len)
       IN  Strip(p6)

\* c repeated n times
Run(c, n) == [k \in 1..n |-> c]

\* the pieces the prompts are made of
Pieces ==
  { <<" ">>, <<"TAB">>, <<"NUL">>, <<"a">>, <<"{">>, <<"}">>, <<"$">>, <<"BQ">>,
    <<"<", "s", "c">>, <<"i", "p", "t">>, <<"<", "s", "c", "r", "i", "p", "t">>,
    Run("r", RepeatMin), Run("r", RepeatMin + 1) }

\* the most pieces of a prompt
MaxPieces == 3

\* the prompts of n pieces
RECURSIVE Prompts(_)
Prompts(n) ==
  IF n = 0 THEN { << >> }
  ELSE Prompts(n - 1) \cup { p \o q : p \in Prompts(n - 1), q \in Pieces }

\* max_len: int = 512
DefaultMaxLen == 512

\* the values of max_len
MaxLens == {-1, 0, 3, DefaultMaxLen}

InitPrompt ==
  /\ tool = "ocr"
  /\ genai = "module"
  /\ form = GoodForm
  /\ call \in [fn : {"sanitize_prompt"}, prompt : Prompts(MaxPieces), is_none : BOOLEAN,
                max_len : MaxLens]
  /\ ret = [done |-> FALSE, text |-> << >>]
  /\ Idle

\* sanitize_prompt is applied to the prompt of the call
S_sanitize_prompt ==
  /\ call.fn = "sanitize_prompt"
  /\ ~ret.done
  /\ ret' = [done |-> TRUE,
             text |-> sanitize_prompt(call.prompt, call.is_none, call.max_len)]
  /\ UNCHANGED << tool, genai, form, call, flags, widgets, disk, selected_files,
                  uiq, wk, edits >>

NextPrompt == S_sanitize_prompt

SpecPrompt == InitPrompt /\ [][NextPrompt]_vars

(***************************************************************************)
(* The prompt of an ocr2md run: process_files sanitizes the prompt field   *)
(* (lines 660-664) and transcribe_image sanitizes what it is handed again  *)
(* (lines 243-245).                                                        *)
(***************************************************************************)
\* "Transcribe this image to Markdown"
DefaultPrompt ==
  << "T", "r", "a", "n", "s", "c", "r", "i", "b", "e", " ", "t", "h", "i", "s", " ", "i", "m", "a", "g", "e", " ", "t", "o", " ", "M", "a", "r", "k", "d", "o", "w", "n" >>

\* process_files, lines 661-664: sanitize_prompt(self.custom_prompt_var.get())
\* or None, the default when nothing is left
RunPrompt(field) ==
  LET p == sanitize_prompt(field, FALSE, DefaultMaxLen)
  IN  IF p = << >> THEN DefaultPrompt ELSE p

\* transcribe_image, lines 243-245: sanitize_prompt(prompt) if prompt else the
\* default, and the default when the result is empty
SentPrompt(prompt) ==
  LET p == IF prompt # << >> THEN sanitize_prompt(prompt, FALSE, DefaultMaxLen)
           ELSE DefaultPrompt
  IN  IF p = << >> THEN DefaultPrompt ELSE p

InitRunPrompt ==
  /\ tool = "ocr"
  /\ genai = "module"
  /\ form = GoodForm
  /\ call \in [fn : {"process_files"}, field : Prompts(MaxPieces)]
  /\ ret = [stage |-> "start", prompt_text |-> << >>, sent |-> << >>]
  /\ Idle

\* process_files fixes the prompt of the run before its loop
R_process_files ==
  /\ call.fn = "process_files"
  /\ ret.stage = "start"
  /\ ret' = [stage |-> "loop", prompt_text |-> RunPrompt(call.field), sent |-> << >>]
  /\ UNCHANGED << tool, genai, form, call, flags, widgets, disk, selected_files,
                  uiq, wk, edits >>

\* process_file hands the prompt of the run to transcribe_image (lines 312-313),
\* which sends what it makes of it
R_transcribe_image ==
  /\ call.fn = "process_files"
  /\ ret.stage = "loop"
  /\ Len(ret.sent) < MaxFiles
  /\ ret' = [ret EXCEPT !.sent = Append(@, SentPrompt(ret.prompt_text))]
  /\ UNCHANGED << tool, genai, form, call, flags, widgets, disk, selected_files,
                  uiq, wk, edits >>

NextRunPrompt ==
  \/ R_process_files
  \/ R_transcribe_image

SpecRunPrompt == InitRunPrompt /\ [][NextRunPrompt]_vars

(***************************************************************************)
(* The selection and the widgets that show it: select_files and            *)
(* clear_files of both tools, with the listbox and (ocr2md) the file-count *)
(* label.  selected_files holds paths here.                                *)
(***************************************************************************)
\* the most files one dialog returns
MaxPick == 2

\* the paths the file dialog can return
SelPaths ==
  { <<"d", "/", "a", ".", "p", "n", "g">>, <<"/", "b", "/", "a", ".", "p", "n", "g">>,
    <<"d", "/", "a", ".", "t", "x", "t">>, <<"d", "/", "b", ".", "p", "n", "g">>,
    <<".", ".", "/", "a", ".", "p", "n", "g">> }

\* a file the dialog returns: its path and what the file system says of it
SelFiles ==
  [ path : SelPaths, is_symlink : BOOLEAN, size : {1, MaxSize(1) + 1}, max_size_mb : {1} ]

\* what askopenfilenames can return: the empty tuple when the dialog is
\* cancelled, else some files
RECURSIVE SelPicks(_)
SelPicks(n) ==
  IF n = 0 THEN { << >> }
  ELSE SelPicks(n - 1) \cup { Append(p, f) : p \in SelPicks(n - 1), f \in SelFiles }

\* text="No files selected" (ocr2md.py lines 449 and 563)
NoFilesLabel == <<"No files selected">>

\* f"{len(self.selected_files)} file(s) selected"
CountLabel(n) == <<n, " file(s) selected">>

\* every file counts as new
AlreadySelected_never(f, sel) == FALSE

\* not (f not in self.selected_files)
AlreadySelected(f, sel) == \E i \in 1..Len(sel) : sel[i] = f

\* the for loop of select_files over the files of the dialog: the ocr2md checks
\* (lines 535-549) skip a file, a new path is appended to selected_files and its
\* name to the listbox
RECURSIVE SelectLoop(_, _, _, _)
SelectLoop(t, sel, box, files) ==
  IF files = << >> THEN [sel |-> sel, box |-> box]
  ELSE LET c == Head(files)
       IN  IF t = "ocr" /\ ~select_accepts(c)
             THEN SelectLoop(t, sel, box, Tail(files))
           ELSE IF AlreadySelected(c.path, sel)
             THEN SelectLoop(t, sel, box, Tail(files))
           ELSE SelectLoop(t, Append(sel, c.path), Append(box, PathName(c.path)),
                           Tail(files))

InitSel ==
  /\ tool \in {"ocr", "book"}
  /\ genai = "module"
  /\ form = GoodForm
  /\ call = [fn |-> "selection"]
  /\ ret = [file_listbox |-> << >>, file_count_label |-> NoFilesLabel]
  /\ Idle

\* select_files of the tool; nothing happens when the dialog returns no file
L_select_files ==
  /\ call.fn = "selection"
  /\ \E files \in SelPicks(MaxPick) :
       IF files = << >> THEN UNCHANGED << selected_files, ret >>
       ELSE LET r == SelectLoop(tool, selected_files, ret.file_listbox, files)
            IN  /\ selected_files' = r.sel
                /\ ret' = [file_listbox |-> r.box,
                           file_count_label |->
                             IF tool = "ocr" THEN CountLabel(Len(r.sel))
                             ELSE ret.file_count_label]
  /\ UNCHANGED << tool, genai, form, call, flags, widgets, disk, uiq, wk, edits >>

\* clear_files of the tool
L_clear_files ==
  /\ call.fn = "selection"
  /\ selected_files' = << >>
  /\ ret' = [file_listbox |-> << >>,
             file_count_label |-> IF tool = "ocr" THEN NoFilesLabel
                                  ELSE ret.file_count_label]
  /\ UNCHANGED << tool, genai, form, call, flags, widgets, disk, uiq, wk, edits >>

NextSel ==
  \/ L_select_files
  \/ L_clear_files

SpecSel == InitSel /\ [][NextSel]_vars

(***************************************************************************)
(* The configuration of a run of the book generator: the model combobox    *)
(* and the output-directory entry stay editable while process_files runs,  *)
(* and process_files reads both Tk variables where it uses them.           *)
(***************************************************************************)
\* the entries of GEMINI_MODELS the user chooses between
Models == {"m1", "m2"}

\* the texts of the output-directory entry; "" is the empty entry
Dirs == {"", "o1", "o2"}

\* the state before Start: __init__, lines 70-75
ConfigIdle ==
  [ selected_model |-> "m1", output_path |-> "", isdir |-> {""},
    is_running |-> FALSE, pc |-> "idle", file |-> 0, prompt |-> 0, attempt |-> 0,
    start_model |-> "m1", start_dir |-> "", used |-> {}, results |-> << >>,
    reports |-> << >> ]

InitConfig ==
  /\ tool = "book"
  /\ genai = "module"
  /\ form = GoodForm
  /\ call = [fn |-> "config"]
  /\ ret = ConfigIdle
  /\ Idle

ConfigUnchanged ==
  UNCHANGED << tool, genai, form, call, flags, widgets, disk, selected_files,
               uiq, wk, edits >>

\* the combobox bound to self.selected_model (line 106): never disabled
G_select_model ==
  /\ call.fn = "config"
  /\ \E m \in Models : ret' = [ret EXCEPT !.selected_model = m]
  /\ ConfigUnchanged

\* the entry bound to self.output_path (line 135) and browse_output: never
\* disabled
G_edit_output ==
  /\ call.fn = "config"
  /\ \E d \in Dirs : ret' = [ret EXCEPT !.output_path = d]
  /\ ConfigUnchanged

\* start_processing: validate_inputs accepts a non-empty output path and makes
\* the directory when it is missing (lines 258-266); the worker starts with
\* the first file.  start_model and start_dir remember what Start saw.
G_start_processing ==
  /\ call.fn = "config"
  /\ ~ret.is_running
  /\ ret.output_path # ""
  /\ \E makedirs_ok \in BOOLEAN :
       /\ ret.output_path \in ret.isdir \/ makedirs_ok
       /\ ret' = [ret EXCEPT !.isdir = @ \cup {ret.output_path},
                             !.is_running = TRUE,
                             !.pc = "call", !.file = 1, !.prompt = 1, !.attempt = 1,
                             !.start_model = ret.selected_model,
                             !.start_dir = ret.output_path,
                             !.used = {}, !.results = << >>, !.reports = << >>]
  /\ ConfigUnchanged

\* what follows the result of a prompt: the next prompt, or the report
AfterPrompt(r, result) ==
  IF r.prompt < NumPrompts
    THEN [r EXCEPT !.results = Append(@, result), !.prompt = @ + 1, !.attempt = 1]
    ELSE [r EXCEPT !.results = Append(@, result), !.pc = "report"]

\* one attempt of the retry loop, lines 355-380:
\* self.call_model(self.selected_model.get(), full_prompt)
G_call_model ==
  /\ call.fn = "config"
  /\ ret.pc = "call"
  /\ LET m == ret.selected_model
         r == [ret EXCEPT !.used = @ \cup {m}]
     IN  \E ok \in BOOLEAN :
           ret' = IF ok THEN AfterPrompt(r, m)
                  ELSE IF ret.attempt < BMG_max_retries
                    THEN [r EXCEPT !.attempt = @ + 1]
                  ELSE AfterPrompt(r, "error")
  /\ ConfigUnchanged

\* lines 395-401: generate_report reads self.selected_model for the header
\* (line 428), the path is built from self.output_path (line 398), and open()
\* fails when that directory does not exist, which ends the run (410-415)
G_write_report ==
  /\ call.fn = "config"
  /\ ret.pc = "report"
  /\ IF ret.output_path \in ret.isdir
       THEN LET rep == [file |-> ret.file, header |-> ret.selected_model,
                        responses |-> ret.results, dir |-> ret.output_path]
                r == [ret EXCEPT !.reports = Append(@, rep), !.results = << >>]
            IN  ret' = IF ret.file < MaxFiles
                         THEN [r EXCEPT !.pc = "call", !.file = @ + 1, !.prompt = 1,
                                        !.attempt = 1]
                         ELSE [r EXCEPT !.pc = "idle", !.is_running = FALSE]
       ELSE ret' = [ret EXCEPT !.pc = "idle", !.is_running = FALSE]
  /\ ConfigUnchanged

NextConfig ==
  \/ G_select_model
  \/ G_edit_output
  \/ G_start_processing
  \/ G_call_model
  \/ G_write_report

SpecConfig == InitConfig /\ [][NextConfig]_vars

(***************************************************************************)
(* The log of the ocr2md GUI: OCRApp.log (lines 509-518) and the messages  *)
(* its callers build.  The characters that are not ASCII are written as    *)
(* WARN, CHECK, CROSS and DASH, the time stamp as HH:MM:SS.                *)
(***************************************************************************)
\* the class [a-zA-Z0-9_-] of the pattern in log
LogWordChars ==
  { "a", "b", "c", "d", "e", "f", "g", "h", "i", "j", "k", "l", "m", "n",
    "o", "p", "q", "r", "s", "t", "u", "v", "w", "x", "y", "z", "A", "B",
    "C", "D", "E", "F", "G", "H", "I", "J", "K", "L", "M", "N", "O", "P",
    "Q", "R", "S", "T", "U", "V", "W", "X", "Y", "Z", "0", "1", "2", "3",
    "4", "5", "6", "7", "8", "9", "_", "-" }

\* {30,} in r'[a-zA-Z0-9_-]{30,}'
RedactMin == 30

\* '[REDACTED]'
REDACTED == << "[", "R", "E", "D", "A", "C", "T", "E", "D", "]" >>

\* re.sub(r'[a-zA-Z0-9_-]{30,}', '[REDACTED]', message): every maximal run of
\* at least RedactMin characters of the class is replaced
RECURSIVE Redact(_)
Redact(s) ==
  LET i == FirstIn(s, LogWordChars)
  IN  IF i = 0 THEN s
      ELSE LET rest == SubSeq(s, i, Len(s))
               k == FirstNotIn(rest, LogWordChars)
               n == IF k = 0 THEN Len(rest) ELSE k - 1
           IN  SubSeq(s, 1, i - 1)
               \o (IF n >= RedactMin THEN REDACTED ELSE SubSeq(rest, 1, n))
               \o Redact(SubSeq(rest, n + 1, Len(rest)))

\* the line log inserts: f"[{timestamp}] {sanitized}\n"
LogLine(message) == <<"[", "HH:MM:SS", "]", " ">> \o Redact(message) \o <<"LF">>

\* the lines of a handler, appended in order
RECURSIVE LogAll(_, _)
LogAll(log_text, messages) ==
  IF messages = << >> THEN log_text
  ELSE LogAll(Append(log_text, LogLine(Head(messages))), Tail(messages))

\* the fixed texts of the messages the callers of log build (f-strings of
\* lines 537-697); model is the value of self.selected_model.get()
LogMessages ==
  [ rejected_path |->  \* line 537
      << "WARN", " ", " ", "R", "e", "j", "e", "c", "t", "e", "d", " ", "f", "i",
        "l", "e", " ", "(", "i", "n", "v", "a", "l", "i", "d", " ", "p", "a", "t",
        "h", ")", ":", " " >>,
    rejected_size |->  \* line 545
      << "WARN", " ", " ", "R", "e", "j", "e", "c", "t", "e", "d", " ", "f", "i",
        "l", "e", " ", "(", "e", "x", "c", "e", "e", "d", "s", " ", "1", "M", "B",
        ")", ":", " " >>,
    added |->  \* line 558
      << "A", "d", "d", "e", "d", " ", "1", " ", "f", "i", "l", "e", "(", "s",
        ")" >>,
    cleared |->  \* line 564
      << "C", "l", "e", "a", "r", "e", "d", " ", "f", "i", "l", "e", " ", "s",
        "e", "l", "e", "c", "t", "i", "o", "n" >>,
    output_directory |->  \* line 580
      << "O", "u", "t", "p", "u", "t", " ", "d", "i", "r", "e", "c", "t", "o",
        "r", "y", ":", " " >>,
    starting |->  \* line 628
      << "S", "t", "a", "r", "t", "i", "n", "g", " ", "p", "r", "o", "c", "e",
        "s", "s", "i", "n", "g", " ", "w", "i", "t", "h", " ", "m", "o", "d", "e",
        "l", ":", " " >>,
    cancellation |->  \* line 634
      << "C", "a", "n", "c", "e", "l", "l", "a", "t", "i", "o", "n", " ", "r",
        "e", "q", "u", "e", "s", "t", "e", "d", ".", ".", "." >>,
    no_module |->  \* line 645
      << "E", "R", "R", "O", "R", ":", " ", "g", "o", "o", "g", "l", "e", ".",
        "g", "e", "n", "e", "r", "a", "t", "i", "v", "e", "a", "i", " ", "m", "o",
        "d", "u", "l", "e", " ", "i", "s", " ", "n", "o", "t", " ", "i", "n", "s",
        "t", "a", "l", "l", "e", "d", "." >>,
    cancelled |->  \* line 672
      << "P", "r", "o", "c", "e", "s", "s", "i", "n", "g", " ", "c", "a", "n",
        "c", "e", "l", "l", "e", "d", " ", "b", "y", " ", "u", "s", "e", "r",
        "." >>,
    processing |->  \* line 677
      << "P", "r", "o", "c", "e", "s", "s", "i", "n", "g", " ", "(", "1", "/",
        "1", ")", ":", " " >>,
    completed |->  \* line 683
      << " ", " ", "CHECK", " ", "C", "o", "m", "p", "l", "e", "t", "e", "d",
        ":", " " >>,
    cost |->  \* line 683
      << " ", "DASH", " ", "C", "o", "s", "t", ":", " ", "$", "0", ".", "0", "0",
        "0", "0", "0", "0" >>,
    error |->  \* line 686
      << " ", " ", "CROSS", " ", "E", "r", "r", "o", "r", ":", " " >>,
    complete |->  \* line 690
      << "P", "r", "o", "c", "e", "s", "s", "i", "n", "g", " ", "c", "o", "m",
        "p", "l", "e", "t", "e", ":", " " >>,
    of_total |->  \* line 690
      << "/", "1", " ", "f", "i", "l", "e", "s", " ", "p", "r", "o", "c", "e",
        "s", "s", "e", "d" >>,
    total_cost |->  \* line 691
      << "T", "o", "t", "a", "l", " ", "c", "o", "s", "t", ":", " ", "$", "0",
        ".", "0", "0", "0", "0", "0", "0" >>,
    failed |->  \* line 693
      << "F", "a", "i", "l", "e", "d", ":", " ", "1", " ", "f", "i", "l", "e",
        "(", "s", ")" >>,
    fatal |->  \* line 697
      << "F", "a", "t", "a", "l", " ", "e", "r", "r", "o", "r", ":", " " >>,
    model |->  \* line 628
      << "g", "e", "m", "i", "n", "i", "-", "2", ".", "5", "-", "f", "l", "a",
        "s", "h" >>,
    rule |->  \* line 689
      Run("=", 50) ]

\* the output directories the directory dialog can return: a short one, and
\* one whose last component has RedactMin characters
LogDirs ==
  { <<"/", "h", "/", "o">>, <<"/", "h", "/">> \o Run("o", RedactMin) }

\* the files the file dialog can return
LogFiles ==
  [ path : { <<"/", "h", "/", "a", ".", "p", "n", "g">>,
             <<"/", "h", "/", ".", ".", "/", "a", ".", "p", "n", "g">>,
             <<"/", "h", "/">> \o Run("a", RedactMin) \o <<".", "p", "n", "g">> },
    is_symlink : {FALSE}, size : {1, MaxSize(1) + 1}, max_size_mb : {1} ]

\* str(e) of the exceptions process_file can raise for the file: the
\* ValueErrors of lines 294 and 300, the OSError of open() at line 239 or 313
\* (which names the path it was given), and the errors of the remote call
ProcessFileErrors(file, output_dir) ==
  { << "I", "n", "v", "a", "l", "i", "d", " ", "i", "n", "p", "u", "t", " ",
     "f", "i", "l", "e", " ", "p", "a", "t", "h", ":", " " >> \o PathName(file.path),
    << "I", "n", "v", "a", "l", "i", "d", " ", "o", "u", "t", "p", "u", "t",
     " ", "d", "i", "r", "e", "c", "t", "o", "r", "y", ":", " " >> \o output_dir,
    << "[", "E", "r", "r", "n", "o", " ", "2", "]", " ", "N", "o", " ", "s",
     "u", "c", "h", " ", "f", "i", "l", "e", " ", "o", "r", " ", "d", "i", "r",
     "e", "c", "t", "o", "r", "y", ":", " ", "'" >>
      \o file.path \o <<"'">> }
  \cup { ErrText[e] : e \in OCR_Errs }

\* str(e) of the exception of self.max_file_size_mb.get() at line 659
ConfigErrors == { << "e", "x", "p", "e", "c", "t", "e", "d", " ", "i", "n", "t", "e", "g",
     "e", "r" >> }

\* the number of handlers whose lines the log holds
MaxLogActions == 2

InitLog ==
  /\ tool = "ocr"
  /\ genai \in {"module", "None"}
  /\ form = GoodForm
  /\ call \in [fn : {"log"}, api_key : {Key(MinKeyLen), Key(RedactMin)},
                output_dir : LogDirs, file : LogFiles]
  /\ ret = [log_text |-> << >>, n |-> 0]
  /\ Idle

\* a handler may run: the log holds the lines of fewer than MaxLogActions
LogReady == call.fn = "log" /\ ret.n < MaxLogActions

\* the log after the handler appended its messages
Logged(messages) == [log_text |-> LogAll(ret.log_text, messages), n |-> ret.n + 1]

LogUnchanged ==
  UNCHANGED << tool, genai, form, call, flags, widgets, disk, selected_files,
               uiq, wk, edits >>

\* select_files for a dialog that returned the file of the call
Lg_select_files ==
  /\ LogReady
  /\ LET name == PathName(call.file.path)
     IN  ret' = Logged(IF ~validate_file_path(call.file.path, call.file.is_symlink)
                         THEN <<LogMessages.rejected_path \o name>>
                       ELSE IF ~select_accepts(call.file)
                         THEN <<LogMessages.rejected_size \o name>>
                       ELSE <<LogMessages.added>>)
  /\ LogUnchanged

\* clear_files
Lg_clear_files ==
  /\ LogReady
  /\ ret' = Logged(<<LogMessages.cleared>>)
  /\ LogUnchanged

\* browse_output for a dialog that returned the directory of the call
Lg_browse_output ==
  /\ LogReady
  /\ ret' = Logged(<<LogMessages.output_directory \o call.output_dir>>)
  /\ LogUnchanged

\* start_processing after validate_inputs accepted the form
Lg_start_processing ==
  /\ LogReady
  /\ ret' = Logged(<<LogMessages.starting \o LogMessages.model>>)
  /\ LogUnchanged

\* cancel_processing
Lg_cancel_processing ==
  /\ LogReady
  /\ ret' = Logged(<<LogMessages.cancellation>>)
  /\ LogUnchanged

\* process_files for a selection that holds the file of the call: the SDK is
\* missing, or reading the configuration fails, or the run is cancelled before
\* the file, or the file is processed or fails and the summary follows
Lg_process_files ==
  /\ LogReady
  /\ LET filename == PathName(call.file.path)
         m == LogMessages
     IN  IF genai = "None" THEN ret' = Logged(<<m.no_module>>)
         ELSE \/ \E e \in ConfigErrors : ret' = Logged(<<m.fatal \o e>>)
              \/ ret' = Logged(<<m.cancelled>>)
              \/ ret' = Logged(<<m.processing \o filename,
                                 m.completed \o filename \o m.cost,
                                 m.rule,
                                 m.complete \o <<"1">> \o m.of_total,
                                 m.total_cost>>)
              \/ \E e \in ProcessFileErrors(call.file, call.output_dir) :
                   ret' = Logged(<<m.processing \o filename,
                                   m.error \o filename \o <<" ", "-", " ">> \o e,
                                   m.rule,
                                   m.complete \o <<"0">> \o m.of_total,
                                   m.total_cost,
                                   m.failed>>)
  /\ LogUnchanged

NextLog ==
  \/ Lg_select_files
  \/ Lg_clear_files
  \/ Lg_browse_output
  \/ Lg_start_processing
  \/ Lg_cancel_processing
  \/ Lg_process_files

SpecLog == InitLog /\ [][NextLog]_vars

(***************************************************************************)
(* Properties.                                                             *)
(***************************************************************************)
Workers == 1..Len(wk)

\* the retry loop of worker i is between two attempts or in one
InLoop(i) == wk[i].pc \in {"call", "sleep"}

\* the retry loop of worker i has ended (and the next one has not begun)
Ended(i) == ~InLoop(i) /\ wk[i].attempts # << >>

LastAttempt(i) == wk[i].attempts[Len(wk[i].attempts)]

\* the file of the last iteration worker i began
LoopFile(i) == wk[i].processed[Len(wk[i].processed)]

\* C1: in one retry loop (one file of ocr2md, one prompt of the book generator)
\* the remote model is invoked at most 3 times, whatever the calls return.
C1_RetryBound == \A i \in Workers : Len(wk[i].attempts) <= 3

C1_Witness ==
  \E i \in Workers : /\ Len(wk[i].attempts) = 3
                     /\ \A k \in 1..3 : ~wk[i].attempts[k].ok
                     /\ Ended(i)

\* C2: in ocr2md an attempt that fails with a message holding none of the markers
\* is the last attempt of its file: the error is raised and recorded for the file,
\* with no wait after it and no further model call.
C2_FatalNotRetried ==
  \A i \in Workers :
    tool = "ocr" =>
      \A k \in 1..Len(wk[i].attempts) :
        LET a == wk[i].attempts[k]
        IN  (~a.ok /\ ~is_retryable(a.err)) =>
              /\ k = Len(wk[i].attempts)
              /\ Len(wk[i].waits) = k - 1
              /\ ~InLoop(i)
              /\ wk[i].errors # << >>
              /\ wk[i].errors[Len(wk[i].errors)] = <<LoopFile(i), a.err>>

C2_Witness ==
  \E i \in Workers :
    /\ tool = "ocr"
    /\ Len(wk[i].attempts) = 2
    /\ wk[i].attempts[1] = Raised(2)
    /\ wk[i].attempts[2] = Raised(3)
    /\ wk[i].pc = "next"

\* C3 as claimed: in the book generator a call_model error that is not classified
\* as transient is the only attempt for its prompt.
C3_Original ==
  \A i \in Workers :
    tool = "book" =>
      \A k \in 1..Len(wk[i].attempts) :
        LET a == wk[i].attempts[k]
        IN  (~a.ok /\ ~BMG_transient(a.err)) => (k = 1 /\ Len(wk[i].attempts) = 1 /\ ~InLoop(i))

\* C3: in the book generator every failed call_model, transient or not, is
\* followed by a wait and another attempt until 3 attempts have been made; an
\* error is recorded as the prompt's result only after the third failed attempt.
C3_AllErrorsRetried ==
  \A i \in Workers :
    tool = "book" =>
      /\ \A k \in 1..Len(wk[i].attempts) :
           (~wk[i].attempts[k].ok /\ k < 3) =>
              \/ k < Len(wk[i].attempts)
              \/ (wk[i].pc = "sleep" /\ Len(wk[i].waits) = k - 1)
              \/ (wk[i].pc = "call" /\ Len(wk[i].waits) = k)
      /\ (Ended(i) /\ wk[i].last_result.kind = "error") =>
           /\ wk[i].last_result.attempts = 3
           /\ Len(wk[i].attempts) = 3
           /\ wk[i].last_result.err = LastAttempt(i).err

C3_Witness ==
  \E i \in Workers :
    /\ tool = "book"
    /\ Len(wk[i].attempts) = 3
    /\ wk[i].attempts[1] = Raised(3)
    /\ wk[i].last_result = ErrorText(3, 3)

\* C4: in one retry loop the k-th wait lasts 2^(k-1) seconds (1, then 2); there is
\* a wait between two attempts and none after the last attempt, failed or not;
\* every retry loop starts with a delay of 1.
C4_BackoffDoubles ==
  \A i \in Workers :
    /\ \A k \in 1..Len(wk[i].waits) : wk[i].waits[k] = 2 ^ (k - 1)
    /\ Len(wk[i].waits) <= 2
    /\ wk[i].pc = "call" => /\ Len(wk[i].waits) = Len(wk[i].attempts)
                            /\ wk[i].delay = 2 ^ Len(wk[i].attempts)
    /\ wk[i].pc = "sleep" => Len(wk[i].waits) = Len(wk[i].attempts) - 1
    /\ Ended(i) => Len(wk[i].waits) = Len(wk[i].attempts) - 1
    /\ wk[i].attempts = << >> /\ wk[i].pc # "call" => wk[i].waits = << >>

C4_Witness ==
  \E i \in Workers :
    /\ Len(wk[i].processed) = 2
    /\ wk[i].waits = <<1, 2>>
    /\ Ended(i)

\* what the run has recorded for the retry loop of worker i that ended with a
\* response: ocr2md writes the text to the output file of the file and appends the
\* file to results; the book generator appends the entry of the prompt (the n-th
\* entry of a file is that of prompt n)
RecordedFor(i, text) ==
  IF tool = "ocr"
    THEN /\ out_files[LoopFile(i)] = text
         /\ wk[i].results # << >>
         /\ wk[i].results[Len(wk[i].results)] = LoopFile(i)
    ELSE /\ wk[i].results # << >>
         /\ wk[i].results[Len(wk[i].results)] = Len(wk[i].results)
         /\ wk[i].last_result = text

\* a response ends the retry loop: it is the last attempt
StopsAtSuccess(i) ==
  \A k \in 1..Len(wk[i].attempts) :
    wk[i].attempts[k].ok => (k = Len(wk[i].attempts) /\ ~InLoop(i))

\* C5 as claimed: the retry loop stops at the first response, and the recorded
\* result is the text of that attempt.
C5_Original ==
  \A i \in Workers :
    /\ StopsAtSuccess(i)
    /\ (Ended(i) /\ LastAttempt(i).ok) =>
          RecordedFor(i, IF tool = "ocr" THEN LastAttempt(i).text
                                         ELSE ResponseText(LastAttempt(i).text))

\* C5: the retry loop stops at the first response (so a file or prompt has at
\* most one successful call per run); the recorded result is the text of that
\* attempt, except that the book generator records "No response generated." when
\* that text is empty.
C5_StopsAtFirstSuccess ==
  \A i \in Workers :
    /\ StopsAtSuccess(i)
    /\ (Ended(i) /\ LastAttempt(i).ok) =>
          RecordedFor(i, IF tool = "ocr" THEN LastAttempt(i).text
                         ELSE IF LastAttempt(i).text # ""
                                THEN ResponseText(LastAttempt(i).text)
                                ELSE NoResponse)

C5_Witness ==
  \E i \in Workers :
    /\ tool = "book"
    /\ Len(wk[i].attempts) = 2
    /\ LastAttempt(i) = Returned("")
    /\ wk[i].last_result = NoResponse
    /\ wk[i].pc = "prompt"

\* C6: at most one worker thread is running at any moment, and when a worker is
\* created every earlier worker has finished and its reset_ui callback has run.
C6_OneWorker ==
  /\ Cardinality({i \in Workers : Running(wk[i])}) <= 1
  /\ \A i \in Workers : i < Len(wk) => (wk[i].pc = "done" /\ wk[i].reset_ran)

C6_Witness == Len(wk) = 2 /\ wk[2].pc = "call" /\ wk[1].reset_ran

\* C7: while cancel_requested is set no worker begins a file iteration or a prompt
\* iteration, and a worker makes at most 3 model calls with the flag set.
C7_CancelStopsNewWork ==
  /\ [](\A i \in Workers : wk[i].callsAfterCancel <= 3)
  /\ [][\A i \in Workers :
          cancel_requested =>
            /\ Len(wk'[i].processed) <= Len(wk[i].processed)
            /\ wk'[i].current_op <= wk[i].current_op]_vars

C7_Witness ==
  \E i \in Workers : wk[i].callsAfterCancel = 3 /\ wk[i].pc = "after"

\* the classification the retry loop of the running tool applies
ToolRetries(e) == IF tool = "ocr" THEN is_retryable(e) ELSE TRUE

\* C8: a retry loop during which cancel_requested was set ends as it does without
\* a cancel: with the first response, or with an error that is not retried (the
\* third failed attempt, or one the tool does not retry); in ocr2md the output
\* file of the file is written when the loop ends with a response.
C8_CancelDoesNotInterrupt ==
  \A i \in Workers :
    (wk[i].cancel_in_loop /\ Ended(i)) =>
       /\ LastAttempt(i).ok \/ Len(wk[i].attempts) = 3 \/ ~ToolRetries(LastAttempt(i).err)
       /\ \A k \in 1..(Len(wk[i].attempts) - 1) :
             ~wk[i].attempts[k].ok /\ ToolRetries(wk[i].attempts[k].err)
       /\ (tool = "ocr" /\ LastAttempt(i).ok) =>
             out_files[LoopFile(i)] = LastAttempt(i).text

C8_Witness ==
  \E i \in Workers :
    /\ tool = "ocr"
    /\ wk[i].cancel_in_loop
    /\ wk[i].callsAfterCancel = 2
    /\ Len(wk[i].attempts) = 3
    /\ LastAttempt(i).ok
    /\ out_files[LoopFile(i)] = "A"
    /\ wk[i].pc = "after"

\* s is a prefix of t
IsPrefix(s, t) == Len(s) <= Len(t) /\ \A k \in 1..Len(s) : s[k] = t[k]

\* C9 as claimed: a worker processes exactly the selection as it was when Start
\* was pressed, each file once, in selection order.
C9_FilesFixedAtStart ==
  \A i \in Workers :
    /\ IsPrefix(wk[i].processed, wk[i].startSel)
    /\ (wk[i].pc = "after" /\ Len(wk[i].processed) = wk[i].idx) =>
          wk[i].processed = wk[i].startSel

\* C10 as claimed: no worker assigns the processing flag or cancel_requested.
C10_Original == proc_writer # "worker" /\ cancel_writer # "worker"

\* C10: cancel_requested is assigned by the UI thread only; the processing flag
\* (processing / is_running) is set True by the UI thread, in start_processing,
\* and set False by the worker thread, in the finally block of process_files.
C10_FlagOwnership ==
  /\ cancel_writer # "worker"
  /\ proc_writer = "worker" => (~processing /\ ~is_running)
  /\ proc_writer = "ui" => (IF tool = "ocr" THEN processing ELSE is_running)
  /\ proc_writer = "init" => (~processing /\ ~is_running /\ wk = << >>)

C10_Witness ==
  /\ proc_writer = "worker"
  /\ cancel_requested
  /\ cancel_writer = "ui"
  /\ \E i \in Workers : wk[i].pc = "done" /\ ~wk[i].reset_ran

\* worker i leaves the file loop of ocr2md in this step
LeavesLoop(i) == tool = "ocr" /\ wk[i].pc = "after" /\ wk'[i].pc = "finally"

\* the show_complete call worker i schedules for its counts
Summary(i) ==
  Callback("show_complete", Len(wk[i].results), wk[i].total_files, Len(wk[i].errors), i)

\* C11 as claimed: whenever a worker of ocr2md leaves its file loop with an error
\* recorded, the summary dialog is scheduled with the number of recorded errors.
C11_Original ==
  [][\A i \in Workers :
       (LeavesLoop(i) /\ wk[i].errors # << >>) => uiq' = Append(uiq, Summary(i))]_vars

\* C11: a worker of ocr2md that leaves its file loop while cancel_requested is not
\* set schedules the summary dialog with the number of recorded errors as its
\* failure count; one that leaves it while cancel_requested is set schedules no
\* dialog, whatever errors it recorded.
C11_ErrorsSurfacedUnlessCancelled ==
  [][\A i \in Workers :
       LeavesLoop(i) =>
         IF cancel_requested
           THEN uiq' = uiq
           ELSE uiq' = Append(uiq, Summary(i))]_vars

C11_Witness ==
  \E k \in 1..Len(uiq) :
    /\ uiq[k].cb = "show_complete"
    /\ uiq[k].c = 2
    /\ wk[uiq[k].th].pc = "finally"
    /\ Len(wk[uiq[k].th].errors) = 2

\* the file loop of worker i ended because the list was exhausted, not by a cancel
Exhausted(i) ==
  wk[i].pc \in {"after", "finally"} /\ Len(wk[i].processed) = wk[i].idx

\* C12 as claimed (ocr2md): every file whose iteration has ended is in exactly one
\* of results and errors, a failure does not end the loop, and when the loop ends
\* without a cancel len(results) + len(errors) is the total_files of the run.
C12_Accounting ==
  \A i \in Workers :
    (tool = "ocr" /\ wk[i].pc \in {"next", "after", "finally"}) =>
      /\ Len(wk[i].results) + Len(wk[i].errors) = Len(wk[i].processed)
      /\ \A k \in 1..Len(wk[i].processed) :
            (\E r \in 1..Len(wk[i].results) : wk[i].results[r] = wk[i].processed[k])
              # (\E r \in 1..Len(wk[i].errors) : wk[i].errors[r][1] = wk[i].processed[k])
      /\ Exhausted(i) => Len(wk[i].results) + Len(wk[i].errors) = wk[i].total_files

\* this step makes none of the changes start_processing makes after validation
NoStartEffect ==
  /\ Len(wk') = Len(wk)
  /\ processing' => processing
  /\ is_running' => is_running
  /\ cancel_requested => cancel_requested'
  /\ start_btn' = "disabled" => start_btn = "disabled"
  /\ cancel_btn' = "normal" => cancel_btn = "normal"
  /\ progress' = <<0, 0>> => progress = <<0, 0>>

\* C17: while validate_inputs fails no step creates a worker, sets the processing
\* flag, clears cancel_requested, disables Start, enables Cancel or resets the
\* progress value; and the Start click that shows a validation error box leaves
\* the workers, both flags, both buttons and the progress value unchanged.
C17_RefusedStart ==
  [][/\ ValidateError # "none" => NoStartEffect
     /\ (start_error' # start_error /\ start_error' # "none") =>
           UNCHANGED << wk, processing, is_running, cancel_requested,
                        start_btn, cancel_btn, progress >>]_vars

C17_Witness ==
  /\ start_error = "key_format"
  /\ selected_files # << >>
  /\ wk = << >>
  /\ start_btn = "normal"
  /\ ~processing

\* the section numbers of a report with one section per prompt, in prompt order
FullReport == [k \in 1..NumPrompts |-> k]

DotDotComponent(s) ==
  LET comps == SplitAcc(s, << >>, << >>)
  IN  \E k \in 1..Len(comps) : comps[k] = <<".", ".">>

\* the path p names an entry of the directory d itself
DirectChild(p, d) ==
  /\ PathName(p) \notin { << >>, <<".", ".">> }
  /\ Parts(p) = Parts(d) \o << PathName(p) >>

\* the call has been taken through process_file (or the report writing)
FileDone == ret.stage = "done"

\* process_file raised without a model call and without writing a file
RaisedForFree ==
  /\ ret.result.outcome = "raised"
  /\ ret.result.calls = 0
  /\ ret.result.written = << >>
  /\ ret.recorded = "errors"

C15_DotDotRejected ==
  (call.fn = "file" /\ DotDotComponent(call.path)) =>
    /\ ret.stage # "select" => ~ret.added
    /\ ret.stage \in {"process", "done"} => ret.start_error = "bad_path"
    /\ FileDone => (RaisedForFree /\ ret.result.error = "invalid_input_path")

C15_Witness ==
  /\ FileDone
  /\ call.fn = "file"
  /\ call.path = <<"/", "d", "/", ".", ".", "/", "b", "/", "a", ".", "p", "n", "g">>
  /\ ~call.is_symlink /\ call.readable /\ call.size = 1
  /\ genai = "module" /\ form.writable /\ form.output_dir = <<"o">>
  /\ ~ret.added
  /\ ret.start_error = "bad_path"
  /\ ret.result.error = "invalid_input_path"

\* the checks of get_mime_type reject the file of the call: its extension, lower-
\* cased, is none of the six, it is larger than max_size_mb MB, or it is empty
Rejected ==
  \/ Lower(Suffix(call.path)) \notin mime_types
  \/ call.size > call.max_size_mb * 1024 * 1024
  \/ call.size = 0

\* nothing but the checks of get_mime_type can make process_file fail
OtherwiseFine ==
  /\ ~DotDotComponent(call.path) /\ ~call.is_symlink /\ call.readable
  /\ ~DotDotComponent(form.output_dir) /\ form.writable /\ call.out_link = "none"
  /\ genai = "module"
  /\ call.responses[1].ok

\* C16: for a file of an unsupported type, a file over the size limit or an empty
\* file, process_file raises without a model call and without writing, and the
\* error is recorded; a file of exactly the limit is accepted.
C16_RejectedCostNothing ==
  (call.fn = "file" /\ FileDone) =>
    /\ Rejected => RaisedForFree
    /\ (OtherwiseFine /\ Rejected) =>
          ret.result.error \in {"unsupported_type", "too_big", "empty"}
    /\ (OtherwiseFine /\ ~Rejected) =>
          (ret.result.outcome = "written" /\ ret.result.calls = 1)

C16_Witness ==
  /\ call.fn = "file" /\ FileDone
  /\ OtherwiseFine
  /\ call.size = call.max_size_mb * 1024 * 1024 + 1
  /\ Lower(Suffix(call.path)) = <<".", "p", "n", "g">>
  /\ ret.result.error = "too_big"
  /\ RaisedForFree

\* a file of exactly the limit, with an upper-case extension, is transcribed
C16_AtLimit ==
  /\ call.fn = "file" /\ FileDone
  /\ OtherwiseFine
  /\ call.size = call.max_size_mb * 1024 * 1024
  /\ Suffix(call.path) = <<".", "P", "N", "G">>
  /\ ret.result.outcome = "written"

\* the run over the two selected files has ended
RunEnded == call.fn = "run" /\ ret.index = Len(call.files)

\* C14: at the end of a run the output directory holds one file for each input
\* that succeeded, none overwritten by the output of another input.
C14_OneOutputPerInput ==
  RunEnded =>
    /\ Cardinality(ret.dir) = Len(ret.written)
    /\ \A k \in 1..Len(ret.written) : ret.written[k] \in ret.dir

\* each collision of the claim's naming schemes is reached: the same name in two
\* directories, two names with the same sanitised form, two names with the same
\* stem
C14_SameNameOCR ==
   (/\ RunEnded /\ tool = "ocr"
    /\ call.files = << <<"d", "/", "a", ".", "p", "n", "g">>,
                       <<"/", "b", "/", "a", ".", "p", "n", "g">> >>
    /\ Len(ret.written) = 2 /\ Cardinality(ret.dir) = 1)
C14_SameSanitisedOCR ==
   (/\ RunEnded /\ tool = "ocr"
    /\ call.files = << <<"d", "/", "a", " ", "b", ".", "p", "n", "g">>,
                       <<"d", "/", "a", "_", "b", ".", "p", "n", "g">> >>
    /\ Len(ret.written) = 2 /\ Cardinality(ret.dir) = 1)
C14_SameStemBook ==
   (/\ RunEnded /\ tool = "book"
    /\ call.files = << <<"d", "/", "a", ".", "p", "n", "g">>,
                       <<"d", "/", "a", ".", "t", "x", "t">> >>
    /\ Len(ret.written) = 2 /\ Cardinality(ret.dir) = 1)

\* a rate limit or an unavailable service: the errors 429 and Unavailable
TransientError(e) == e \in {1, 2}

\* the first model call for the file of the entry failed with a transient error
TransientFirst(entry) ==
  entry.calls >= 1 /\ ~entry.first.ok /\ TransientError(entry.first.err)

\* every file whose first model call failed with a transient error got a second
\* call
RetriedTransient(log) ==
  \A k \in 1..Len(log) : TransientFirst(log[k]) => log[k].calls >= 2

\* C19 as stated: in every tool, the Backup scripts included, a model call that
\* fails with a transient error is attempted again before the file is recorded
\* as failed.
C19_Original == call.fn = "calls" => RetriedTransient(ret.log)

\* C19: ocr2md and the book generator attempt a model call that failed with a
\* transient error again; the two Backup scripts make at most one model call for
\* a file and record the file as failed as soon as that call fails.
C19_GuiToolsRetry ==
  call.fn = "calls" =>
    IF tool \in Scripts
      THEN \A k \in 1..Len(ret.log) :
             /\ ret.log[k].calls <= 1
             /\ (ret.log[k].calls = 1 /\ ~ret.log[k].first.ok) => ret.log[k].failed
      ELSE RetriedTransient(ret.log)

C19_Witness ==
  /\ call.fn = "calls"
  /\ Len(ret.log) = 2
  /\ TransientFirst(ret.log[1])
  /\ IF tool \in Scripts
       THEN ret.log[1].calls = 1 /\ ret.log[1].failed /\ ~ret.log[2].failed
       ELSE ret.log[1].calls = 3 /\ ret.log[1].failed /\ ~ret.log[2].failed

\* sanitize_prompt has returned
Sanitized == call.fn = "sanitize_prompt" /\ ret.done

\* the parts of the claim about the returned string
WithinMaxLen == Sanitized => Len(ret.text) <= call.max_len
NoControlChar == Sanitized => \A k \in 1..Len(ret.text) : ret.text[k] \notin ControlChars
Trimmed ==
  Sanitized => (ret.text = << >> \/ (ret.text[1] \notin Whitespace
                                      /\ ret.text[Len(ret.text)] \notin Whitespace))
NoBlacklisted ==
  Sanitized => \A k \in 1..Len(blacklist) : ~Contains(ret.text, blacklist[k])

\* C20: for every prompt and every max_len the string sanitize_prompt returns
\* has length at most max_len, no control character, no leading or trailing
\* whitespace and none of the blacklisted sequences.
C20_Clean == WithinMaxLen /\ NoControlChar /\ Trimmed /\ NoBlacklisted

\* the returned string is "<script": the repeated r was collapsed after the
\* blacklist had been applied
C20_ScriptReturned ==
  /\ Sanitized
  /\ call.max_len = DefaultMaxLen
  /\ call.prompt = <<"<", "s", "c">> \o Run("r", RepeatMin + 1) \o <<"i", "p", "t">>
  /\ ret.text = <<"<", "s", "c", "r", "i", "p", "t">>

\* the length bound holds whenever max_len is not negative
C20_WithinNonNegativeMaxLen == call.max_len >= 0 => WithinMaxLen

\* the progress updates waiting in the callback queue
QueuedUpdates == { k \in 1..Len(uiq) : uiq[k].cb = "update_progress" }

\* C25: in every progress update a worker has scheduled, 1 <= current <= total.
C25_ProgressInRange ==
  \A k \in QueuedUpdates : 1 <= uiq[k].a /\ uiq[k].a <= uiq[k].b

\* a file was added during the run and its update shows 2 of 1
C25_Overshoot ==
  \E k \in QueuedUpdates : uiq[k].a = 2 /\ uiq[k].b = 1

\* the worker queues the "All files processed successfully!" dialog
QueuesSuccessDialog(i) ==
  /\ tool = "book"
  /\ wk[i].pc = "after"
  /\ wk'[i].pc = "finally"
  /\ uiq' = Append(uiq, Callback("showinfo", 0, 0, 0, i))

\* C23: when the book generator queues the success dialog, every file of the
\* selection of the run has been read and has its report.
C23_SuccessMeansAll ==
  [][\A i \in Workers :
       QueuesSuccessDialog(i) =>
         \A k \in 1..Len(wk[i].startSel) : reports[wk[i].startSel[k]] # << >>]_vars

\* the success dialog is queued although the only selected file could not be
\* read and no report exists, the selection never having changed
C23_UnreadFileDialog ==
  /\ tool = "book"
  /\ edits = 0
  /\ Len(wk) = 1
  /\ wk[1].startSel = <<1>>
  /\ reports[1] = << >>
  /\ \E k \in 1..Len(uiq) : uiq[k].cb = "showinfo"

\* a model call of worker i fails in this step
CallFails(i) ==
  /\ wk[i].pc = "call"
  /\ Len(wk'[i].attempts) = Len(wk[i].attempts) + 1
  /\ ~wk'[i].attempts[Len(wk'[i].attempts)].ok

\* worker i records a file as failed in this step
RecordsError(i) == Len(wk'[i].errors) = Len(wk[i].errors) + 1

\* worker i records a file as transcribed in this step
RecordsResult(i) ==
  /\ wk[i].pc = "call"
  /\ Len(wk'[i].results) = Len(wk[i].results) + 1
  /\ wk'[i].attempts[Len(wk'[i].attempts)].ok

\* C26: in ocr2md a step in which a model call fails or a file is recorded as
\* failed leaves every output file as it was, and an output file changes only in
\* the step in which its transcription has returned.
C26_FailureLeavesOutput ==
  [][tool = "ocr" =>
       /\ \A i \in Workers : (CallFails(i) \/ RecordsError(i)) => out_files' = out_files
       /\ out_files' # out_files => \E i \in Workers : RecordsResult(i)]_vars

C26_Witness ==
  /\ tool = "ocr"
  /\ Len(wk) = 2
  /\ out_files[1] = "A"
  /\ wk[2].results = << >>
  /\ \E k \in 1..Len(wk[2].errors) :
        wk[2].errors[k][1] = 1 /\ wk[2].errors[k][2] # 0

\* worker i acts on the flag in this step: it leaves a loop at the cancel check
\* or skips what follows the loop
CutShort(i) ==
  /\ cancel_requested
  /\ \/ /\ wk[i].pc = "next" /\ wk'[i].pc = "after"
        /\ wk[i].idx < Len(IterList(wk[i]))
     \/ /\ wk[i].pc = "prompt" /\ wk'[i].pc = "report"
        /\ wk[i].prompt_idx < NumPrompts
     \/ wk[i].pc = "report" /\ wk'[i].pc = "next"
     \/ wk[i].pc = "after" /\ wk'[i].pc = "finally"

\* C27: a Start that is accepted leaves cancel_requested False, and a worker is
\* cut short only after a Cancel click made during its own run.
C27_CancelDoesNotLeak ==
  [][/\ Len(wk') > Len(wk) => ~cancel_requested'
     /\ \A i \in Workers : CutShort(i) => wk[i].cancel_clicked = "run"]_vars

C27_Witness ==
  /\ Len(wk) = 2
  /\ wk[1].cancel_clicked = "late"
  /\ wk[2].cancel_clicked = "no"
  /\ wk[2].pc = "finally"
  /\ wk[2].startSel = <<1, 2>>
  /\ wk[2].processed = <<1, 2>>
  /\ \E k \in 1..Len(uiq) : uiq[k].th = 2 /\ uiq[k].cb \in {"show_complete", "showinfo"}

\* the idle state of the window
UIIdle ==
  /\ ~processing /\ ~is_running
  /\ start_btn = "normal"
  /\ cancel_btn = "disabled"
  /\ progress_label = "Ready"

\* C22: after a Start that passes validation the worker it created terminates
\* and the window returns to the idle state.
C22_RunEnds ==
  \A i \in 1..MaxRuns :
    (Len(wk) >= i) ~> (/\ Len(wk) >= i
                       /\ wk[i].pc = "done" /\ wk[i].reset_ran
                       /\ UIIdle)

C22_Witness ==
  /\ Len(wk) = 2
  /\ wk[1].pc = "done" /\ wk[1].reset_ran
  /\ wk[2].pc = "done" /\ wk[2].reset_ran
  /\ cancel_requested
  /\ UIIdle

\* C29: the prompt sent to the model for every file of an ocr2md run is the
\* string process_files obtained by sanitizing the prompt field at the start of
\* the run; the second sanitization inside transcribe_image changes nothing
C29_SentIsRunPrompt ==
  call.fn = "process_files" =>
    \A k \in 1..Len(ret.sent) : ret.sent[k] = ret.prompt_text

\* a run whose sanitized prompt still holds a blacklisted sequence, so that
\* the prompt sent for a file is not the prompt of the run
C29_SecondPassChanges ==
  /\ call.fn = "process_files"
  /\ ret.stage = "loop"
  /\ ret.sent # << >>
  /\ \E k \in 1..Len(blacklist) : Contains(ret.prompt_text, blacklist[k])
  /\ ret.sent[1] # ret.prompt_text

\* C28: after any sequence of Select-files and Clear-selection actions in
\* either tool, selected_files holds no path twice, the listbox has one entry
\* per element of selected_files in the same order (the name of the path), and
\* in ocr2md the file-count label shows len(selected_files), or "No files
\* selected" while the selection is empty
C28_SelectionInvariant ==
  call.fn = "selection" =>
    /\ \A i, j \in 1..Len(selected_files) :
         selected_files[i] = selected_files[j] => i = j
    /\ Len(ret.file_listbox) = Len(selected_files)
    /\ \A i \in 1..Len(selected_files) :
         ret.file_listbox[i] = PathName(selected_files[i])
    /\ tool = "ocr" =>
         \/ ret.file_count_label = CountLabel(Len(selected_files))
         \/ selected_files = << >> /\ ret.file_count_label = NoFilesLabel

\* ocr2md after dialogs that returned a path again: three files are selected,
\* two of them with the same name, and the label counts three
C28_Witness ==
  /\ call.fn = "selection"
  /\ tool = "ocr"
  /\ Len(selected_files) = 3
  /\ ret.file_listbox[1] = ret.file_listbox[3]
  /\ ret.file_count_label = CountLabel(3)

\* C24: in the book generator every model call of a run uses the model
\* selected at Start, the "Model:" header of each report names the model that
\* produced all responses in that report, and every report is written to the
\* output directory that validate_inputs checked at Start
C24_ConfigFixedAtStart ==
  call.fn = "config" =>
    /\ ret.used \subseteq {ret.start_model}
    /\ \A k \in 1..Len(ret.reports) :
         /\ \A j \in 1..Len(ret.reports[k].responses) :
              ret.reports[k].responses[j] \in {ret.reports[k].header, "error"}
         /\ ret.reports[k].dir = ret.start_dir

\* a report of a run started with m1 and o1: its first response came from m1,
\* its second from m2, its header names m2 and it lies in the working directory
C24_MixedReport ==
  /\ call.fn = "config"
  /\ ret.start_model = "m1"
  /\ ret.start_dir = "o1"
  /\ ret.reports # << >>
  /\ ret.reports[1].responses = <<"m1", "m2">>
  /\ ret.reports[1].header = "m2"
  /\ ret.reports[1].dir = ""

\* the line holds the API key in use
HoldsKey(line) == Contains(line, call.api_key)

\* the line holds the full path of the file or of the output directory
HoldsFullPath(line) == Contains(line, call.file.path) \/ Contains(line, call.output_dir)

\* C21: no line appended to the ocr2md log by OCRApp.log contains the API key
\* in use or a full file-system path
C21_NoSecretInLog ==
  call.fn = "log" =>
    \A k \in 1..Len(ret.log_text) :
      ~HoldsKey(ret.log_text[k]) /\ ~HoldsFullPath(ret.log_text[k])

\* the first line of the log is the one browse_output wrote, and it holds the
\* output directory in full
C21_DirectoryLogged ==
  /\ call.fn = "log"
  /\ ret.log_text # << >>
  /\ ret.log_text[1] = LogLine(LogMessages.output_directory \o call.output_dir)
  /\ HoldsFullPath(ret.log_text[1])

\* a line of the log holds the full path of the input file
C21_InputPathLogged ==
  /\ call.fn = "log"
  /\ \E k \in 1..Len(ret.log_text) : Contains(ret.log_text[k], call.file.path)

====
